---------------------------- MODULE Spec2Model ----------------------------
(***************************************************************************)
(* Model of the loom arbitrage core: the Market graph                      *)
(* (crates/types/entities/src/market.rs), the pool loader worker           *)
(* (crates/defi/market/src/pool_loader_actor.rs), the lowering of a Swap   *)
(* to swap steps (crates/types/entities/src/swap.rs) and the swap-line     *)
(* encoders (crates/execution/multicaller/src/swapline_encoder.rs,         *)
(* pool_opcodes_encoder/curve.rs).                                         *)
(*                                                                         *)
(* The specifications share the variables:                                 *)
(*   Spec       the Market operations, called in any order;                *)
(*   SpecLoader the pool loader worker and its spawned tasks               *)
(*              (SpecLoaderFair, SpecLoaderLive: with the scheduling of    *)
(*              the tasks); SpecConverge: three tasks that all succeed;    *)
(*   SpecSema   the worker's semaphore under more tasks than permits;       *)
(*   SpecPaths  the path builder and swap_path, called on Markets built    *)
(*              from pools over three tokens;                              *)
(*   SpecSwap   Swap::to_swap_steps and get_pool_address_vec, called on    *)
(*              swaps over short lines;                                    *)
(*   SpecEncoder the three encoders of SwapLineEncoder, called on lines    *)
(*              of pools of every class.                                   *)
(***************************************************************************)
EXTENDS Integers, Sequences, FiniteSets, TLC

VARIABLES
    market,           \* the Market struct (market.rs:17-32)
    result,           \* what the last Market call returned
    processed_pools,  \* pool_loader_worker's local map (pool_loader_actor.rs:37)
    permits,          \* free permits of the worker's semaphore (:38)
    pc,               \* position of the task spawned for each pool id
    spawned,          \* how many tasks were spawned for each pool id
    dropped,          \* history: the pool ids of the tasks the worker dropped
    market_state,     \* MarketState: what the loader tasks wrote to it
    ms_lock,          \* holder of the MarketState write lock, 0 when free
    m_lock,           \* holder of the Market write lock, 0 when free
    readers,          \* number of holders of the Market read lock
    loaded,           \* history: the pool ids the loader inserted into Market
    order,            \* history: the Market write sections, in release order
    bg_waiting,       \* tasks of unloadable pools waiting for a permit
    bg_inflight,      \* tasks of unloadable pools holding a permit
    worker,           \* the worker's task: "running", or "cancelled" (aborted)
    built             \* what the last call of a pure operation returned

vars == << market, result, processed_pools, permits, pc, spawned, dropped,
           market_state, ms_lock, m_lock, readers, loaded, order, bg_waiting,
           bg_inflight, worker, built >>

loader_vars == << processed_pools, permits, pc, spawned, dropped, market_state,
                  ms_lock, m_lock, readers, loaded, order, bg_waiting,
                  bg_inflight, worker, built >>

(***************************************************************************)
(* Bounds of the model and constants of the program.                       *)
(***************************************************************************)
NumPools == 2

MaxPathVec == 2

MaxBatch == 2

NumUnloadable == 22

NumPathPools == 3

MAX_CONCURRENT_TASKS == 20

PoolIds == 1 .. NumPools

WETH == "WETH"

Range(s) == {s[i] : i \in DOMAIN s}

(***************************************************************************)
(* HashMap helpers: a map is a function on the keys present.               *)
(***************************************************************************)
EmptyMap == << >>

Put(map, k, v) == [x \in (DOMAIN map) \cup {k} |-> IF x = k THEN v ELSE map[x]]

GetOr(map, k, d) == IF k \in DOMAIN map THEN map[k] ELSE d

(***************************************************************************)
(* Pools as the Market sees them: a pool id and the swap directions the    *)
(* pool reports.  MockPool{address, token0, token1} reports both           *)
(* directions, also when token0 = token1.  Its class is one that get_pool  *)
(* hands out (test_get_pool), that is, not PoolClass::Unknown.             *)
(***************************************************************************)
MockPool(address, token0, token1) ==
    [id |-> address, dirs |-> << <<token0, token1>>, <<token1, token0>> >>,
     class |-> "UniswapV2"]

PoolInputs ==
    {MockPool(i, WETH, "T1") : i \in PoolIds} \cup
    {MockPool(i, "T1", "T1") : i \in PoolIds}

\* The tokens Spec adds: WETH, as a basic and as a non-basic token.
TokenInputs ==
    {[address |-> WETH, basic |-> TRUE], [address |-> WETH, basic |-> FALSE]}

(***************************************************************************)
(* SwapPath and SwapPaths.  Their code is not among the source files; they *)
(* are modelled from the specification: a path is indexed under each of    *)
(* its pools, and disable_pool marks the paths indexed under the pool.     *)
(***************************************************************************)
SwapPath(tokens, pools) == [tokens |-> tokens, pools |-> pools, disabled |-> FALSE]

EmptySwapPaths == [paths |-> << >>, pool_paths |-> EmptyMap]

SamePath(p, q) == p.tokens = q.tokens /\ p.pools = q.pools

RECURSIVE IndexPath(_, _, _)
IndexPath(pool_paths, pools, idx) ==
    IF pools = << >> THEN pool_paths
    ELSE IndexPath(Put(pool_paths, Head(pools),
                       Append(GetOr(pool_paths, Head(pools), << >>), idx)),
                   Tail(pools), idx)

SwapPaths_add(sp, path) ==
    IF \E i \in 1 .. Len(sp.paths) : SamePath(sp.paths[i], path)
    THEN sp
    ELSE [paths |-> Append(sp.paths, path),
          pool_paths |-> IndexPath(sp.pool_paths, path.pools, Len(sp.paths) + 1)]

SwapPaths_disable_pool(sp, pool_id, disabled) ==
    LET idxs == Range(GetOr(sp.pool_paths, pool_id, << >>))
    IN [sp EXCEPT !.paths = [i \in 1 .. Len(sp.paths) |->
                                IF i \in idxs
                                THEN [sp.paths[i] EXCEPT !.disabled = disabled]
                                ELSE sp.paths[i]]]

SwapPaths_get_pool_paths_vec(sp, pool_id) ==
    [k \in 1 .. Len(GetOr(sp.pool_paths, pool_id, << >>)) |->
        sp.paths[sp.pool_paths[pool_id][k]]]

(***************************************************************************)
(* Market (market.rs).                                                     *)
(***************************************************************************)
EmptyMarket ==
    [pools |-> EmptyMap, pools_disabled |-> EmptyMap, tokens |-> EmptyMap,
     token_tokens |-> EmptyMap, token_token_pools |-> EmptyMap,
     token_pools |-> EmptyMap, swap_paths |-> EmptySwapPaths]

\* A plausible slip: entry().or_insert(), the token already stored is kept.
add_token_keeps_existing(m, token) ==
    IF token.address \in DOMAIN m.tokens THEN m
    ELSE [m EXCEPT !.tokens = Put(@, token.address, token)]

add_token(m, token) == [m EXCEPT !.tokens = Put(@, token.address, token)]

\* An Option is a sequence of length 0 or 1.
get_token(m, address) ==
    IF address \in DOMAIN m.tokens THEN <<m.tokens[address]>> ELSE << >>

is_basic_token(m, address) ==
    address \in DOMAIN m.tokens /\ m.tokens[address].basic

\* A plausible slip: the token -> pools index is not extended.
add_direction_no_token_pools(m, pool_address, from, to) ==
    LET inner == GetOr(m.token_token_pools, from, EmptyMap)
    IN [m EXCEPT
          !.token_token_pools =
              Put(@, from, Put(inner, to, Append(GetOr(inner, to, << >>), pool_address))),
          !.token_tokens = Put(@, from, Append(GetOr(@, from, << >>), to))]

\* A plausible slip: token_tokens is kept free of duplicates.
add_direction_dedup_token_tokens(m, pool_address, from, to) ==
    LET inner == GetOr(m.token_token_pools, from, EmptyMap)
    IN [m EXCEPT
          !.token_token_pools =
              Put(@, from, Put(inner, to, Append(GetOr(inner, to, << >>), pool_address))),
          !.token_tokens =
              Put(@, from, IF to \in Range(GetOr(@, from, << >>))
                           THEN GetOr(@, from, << >>)
                           ELSE Append(GetOr(@, from, << >>), to)),
          !.token_pools = Put(@, from, Append(GetOr(@, from, << >>), pool_address))]

\* The body of add_pool's loop over the pool's swap directions (:89-92).
add_direction(m, pool_address, from, to) ==
    LET inner == GetOr(m.token_token_pools, from, EmptyMap)
    IN [m EXCEPT
          !.token_token_pools =
              Put(@, from, Put(inner, to, Append(GetOr(inner, to, << >>), pool_address))),
          !.token_tokens = Put(@, from, Append(GetOr(@, from, << >>), to)),
          !.token_pools = Put(@, from, Append(GetOr(@, from, << >>), pool_address))]

RECURSIVE add_directions(_, _, _)
add_directions(m, pool_address, dirs) ==
    IF dirs = << >> THEN m
    ELSE add_directions(add_direction(m, pool_address, Head(dirs)[1], Head(dirs)[2]),
                        pool_address, Tail(dirs))

\* A plausible slip: no check for a pool already registered.
add_pool_no_duplicate_check(m, pool) ==
    [market |-> [add_directions(m, pool.id, pool.dirs) EXCEPT
                    !.pools = Put(@, pool.id, pool)],
     result |-> "Ok"]

add_pool(m, pool) ==
    IF pool.id \in DOMAIN m.pools
    THEN [market |-> m, result |-> "Duplicate"]
    ELSE [market |-> [add_directions(m, pool.id, pool.dirs) EXCEPT
                         !.pools = Put(@, pool.id, pool)],
          result |-> "Ok"]

\* A plausible slip: only the first path of the vector is added.
add_paths_first_only(m, paths) ==
    IF paths = << >> THEN m
    ELSE [m EXCEPT !.swap_paths = SwapPaths_add(@, Head(paths))]

RECURSIVE add_paths(_, _)
add_paths(m, paths) ==
    IF paths = << >> THEN m
    ELSE add_paths([m EXCEPT !.swap_paths = SwapPaths_add(@, Head(paths))], Tail(paths))

get_pool_paths(m, pool_address) ==
    SwapPaths_get_pool_paths_vec(m.swap_paths, pool_address)

\* self.pools.get(address).filter(|p| p.get_class() != PoolClass::Unknown)
get_pool(m, address) ==
    IF address \in DOMAIN m.pools /\ m.pools[address].class # "Unknown"
    THEN <<m.pools[address]>>
    ELSE << >>

is_pool(m, address) == address \in DOMAIN m.pools

set_pool_disabled(m, address, disabled) ==
    [m EXCEPT !.pools_disabled = Put(@, address, disabled),
              !.swap_paths = SwapPaths_disable_pool(@, address, disabled)]

\* A plausible slip: the disabled mark is not looked at.
is_pool_disabled_never(m, address) == FALSE

is_pool_disabled(m, address) ==
    address \in DOMAIN m.pools_disabled /\ m.pools_disabled[address]

\* A plausible slip: only the first pool of a token pair is returned.
get_token_token_pools_first_only(m, from, to) ==
    IF from \in DOMAIN m.token_token_pools /\ to \in DOMAIN m.token_token_pools[from]
    THEN <<m.token_token_pools[from][to][1]>>
    ELSE << >>

get_token_token_pools(m, from, to) ==
    IF from \in DOMAIN m.token_token_pools /\ to \in DOMAIN m.token_token_pools[from]
    THEN m.token_token_pools[from][to]
    ELSE << >>

get_token_tokens(m, from) == GetOr(m.token_tokens, from, << >>)

get_token_pools(m, from) == GetOr(m.token_pools, from, << >>)

\* swap_path: every token and every pool is looked up, the first miss is
\* returned as the error TOKEN_NOT_FOUND; otherwise the path is made of the
\* two vectors as they are (:213-225).
swap_path(m, token_address_vec, pool_address_vec) ==
    IF \E i \in 1 .. Len(token_address_vec) : get_token(m, token_address_vec[i]) = << >>
    THEN [result |-> "TOKEN_NOT_FOUND"]
    ELSE IF \E i \in 1 .. Len(pool_address_vec) : get_pool(m, pool_address_vec[i]) = << >>
    THEN [result |-> "TOKEN_NOT_FOUND"]
    ELSE [result |-> "Ok", path |-> SwapPath(token_address_vec, pool_address_vec)]

(***************************************************************************)
(* Inputs of add_paths: vectors of at most MaxPathVec paths over the first *)
(* two pool ids.                                                           *)
(***************************************************************************)
PathInputs ==
    {SwapPath(<<WETH, "T1", WETH>>, <<1, 2>>),
     SwapPath(<<WETH, "T1", WETH>>, <<2, 1>>)}

PathVecs == UNION {[1 .. n -> PathInputs] : n \in 1 .. MaxPathVec}

(***************************************************************************)
(* Spec: the Market operations, called in any order on the empty market.   *)
(***************************************************************************)
\* No path-builder or swap_path call has returned since the last change.
NoCall == [call |-> "none"]

EmptyMarketState == [state |-> {}, force_insert |-> {}, cell_vec_disabled |-> {}]

InitLoader ==
    /\ processed_pools = {}
    /\ permits = MAX_CONCURRENT_TASKS
    /\ pc = [p \in PoolIds |-> "none"]
    /\ spawned = [p \in PoolIds |-> 0]
    /\ dropped = {}
    /\ market_state = EmptyMarketState
    /\ ms_lock = 0
    /\ m_lock = 0
    /\ readers = 0
    /\ loaded = {}
    /\ order = << >>
    /\ bg_waiting = 0
    /\ bg_inflight = 0
    /\ worker = "running"
    /\ built = NoCall

Init ==
    /\ market = EmptyMarket
    /\ result = "Ok"
    /\ InitLoader

AddToken(token) ==
    /\ market' = add_token(market, token)
    /\ result' = "Ok"
    /\ UNCHANGED loader_vars

AddPool(pool) ==
    /\ market' = add_pool(market, pool).market
    /\ result' = add_pool(market, pool).result
    /\ UNCHANGED loader_vars

AddPaths(paths) ==
    /\ market' = add_paths(market, paths)
    /\ result' = "Ok"
    /\ UNCHANGED loader_vars

SetPoolDisabled(address, disabled) ==
    /\ market' = set_pool_disabled(market, address, disabled)
    /\ result' = "Ok"
    /\ UNCHANGED loader_vars

Next ==
    \/ \E token \in TokenInputs : AddToken(token)
    \/ \E pool \in PoolInputs : AddPool(pool)
    \/ \E paths \in PathVecs : AddPaths(paths)
    \/ \E address \in PoolIds, disabled \in BOOLEAN : SetPoolDisabled(address, disabled)

Spec == Init /\ [][Next]_vars

(***************************************************************************)
(* Claims about the Market, checked under Spec.                            *)
(***************************************************************************)

\* C1: in every reachable Market, every pool P of pools and every direction
\* (a,b) P reports have P in token_token_pools[a][b], b in token_tokens[a]
\* and P in token_pools[a].
AdjacencyCovers(m) ==
    \A id \in DOMAIN m.pools :
        \A k \in 1 .. Len(m.pools[id].dirs) :
            LET a == m.pools[id].dirs[k][1]
                b == m.pools[id].dirs[k][2]
            IN /\ id \in Range(get_token_token_pools(m, a, b))
               /\ b \in Range(get_token_tokens(m, a))
               /\ id \in Range(get_token_pools(m, a))

C1_AdjacencyCoversPools == AdjacencyCovers(market)

\* Two pools are registered, a path is indexed, a pool is disabled and a
\* token is known: every operation has acted.
C1_Witness ==
    /\ Cardinality(DOMAIN market.pools) = 2
    /\ Len(get_token_token_pools(market, WETH, "T1")) = 2
    /\ Len(market.swap_paths.paths) > 0
    /\ \E id \in PoolIds : is_pool_disabled(market, id)
    /\ DOMAIN market.tokens # {}

PathsThrough(m, pool_id) ==
    {i \in 1 .. Len(m.swap_paths.paths) : pool_id \in Range(m.swap_paths.paths[i].pools)}

PathMarks(m) == [i \in 1 .. Len(m.swap_paths.paths) |-> m.swap_paths.paths[i].disabled]

SameButDisabling(m1, m2) ==
    /\ m1.pools = m2.pools
    /\ m1.tokens = m2.tokens
    /\ m1.token_tokens = m2.token_tokens
    /\ m1.token_token_pools = m2.token_token_pools
    /\ m1.token_pools = m2.token_pools

C4_FrameHolds ==
    \A id \in PoolIds :
        LET m1 == set_pool_disabled(market, id, TRUE)
            m2 == set_pool_disabled(m1, id, FALSE)
        IN /\ SameButDisabling(market, m1)
           /\ SameButDisabling(market, m2)
           /\ is_pool_disabled(m1, id)
           /\ ~is_pool_disabled(m2, id)


(***************************************************************************)
(* Path builder.  build_swap_path_vec's code is not among the source       *)
(* files; it is modelled from the specification (section 4.2): the 2- and  *)
(* 3-hop cycles anchored at a basic token that pass through the seeded     *)
(* pool on a seeded direction, over the non-disabled pools of the          *)
(* adjacency maps, no pool twice in a path.                                *)
(* The returned vector holds each path once, in an order that is not fixed.  *)
(***************************************************************************)
EnabledPools(m, from, to) ==
    {q \in Range(get_token_token_pools(m, from, to)) : ~is_pool_disabled(m, q)}

\* A plausible slip: every token with an outgoing direction anchors a path.
BasicTokens_any(m) == DOMAIN m.token_tokens

BasicTokens(m) == {a \in DOMAIN m.tokens : m.tokens[a].basic}

\* The tokens reached from a token, and the candidate pools of each hop,
\* are taken from the adjacency maps.
Neighbours(m, from) == Range(get_token_tokens(m, from))

TwoHopPaths(m, pool_id, dirs) ==
    UNION {UNION {
        {SwapPath(<<b, u, b>>, <<q[1], q[2]>>) :
            q \in {q \in EnabledPools(m, b, u) \X EnabledPools(m, u, b) :
                     /\ q[1] # q[2]
                     /\ \/ q[1] = pool_id /\ <<b, u>> \in Range(dirs)
                        \/ q[2] = pool_id /\ <<u, b>> \in Range(dirs)}}
        : u \in Neighbours(m, b)} : b \in BasicTokens(m)}

ThreeHopPaths(m, pool_id, dirs) ==
    UNION {UNION {UNION {
        {SwapPath(<<b, u, v, b>>, <<q[1], q[2], q[3]>>) :
            q \in {q \in EnabledPools(m, b, u) \X EnabledPools(m, u, v)
                         \X EnabledPools(m, v, b) :
                     /\ q[1] # q[2] /\ q[2] # q[3] /\ q[1] # q[3]
                     /\ \/ q[1] = pool_id /\ <<b, u>> \in Range(dirs)
                        \/ q[2] = pool_id /\ <<u, v>> \in Range(dirs)
                        \/ q[3] = pool_id /\ <<v, b>> \in Range(dirs)}}
        : v \in Neighbours(m, u)} : u \in Neighbours(m, b)} : b \in BasicTokens(m)}

\* The deduplicated set of paths the builder finds.
swap_path_set(m, pool_id, dirs) ==
    TwoHopPaths(m, pool_id, dirs) \cup ThreeHopPaths(m, pool_id, dirs)

\* The order of the returned vector is not fixed by the source: the Market's
\* maps are hash maps (market.rs:2, :17-32) and the tests take the paths in
\* either order ("the order of the swap paths is not deterministic",
\* market.rs:411, :481).  Every order is a possible outcome.
RECURSIVE PathOrders(_)
PathOrders(S) ==
    IF S = {} THEN {<< >>}
    ELSE UNION {{<<x>> \o v : v \in PathOrders(S \ {x})} : x \in S}

\* The vectors a call of build_swap_path_vec may return.
build_swap_path_vec(m, pool_id, dirs) == PathOrders(swap_path_set(m, pool_id, dirs))

(***************************************************************************)
(* SpecPaths: build_swap_path_vec called on the Markets that add_pool and  *)
(* set_pool_disabled make.  The Market starts with WETH as its basic       *)
(* token, as the tests and the node set it up; pools get their ids         *)
(* in the order they are added and lie over WETH, T1 and T2, in the pairs  *)
(* the tests use; pools are disabled here, re-enabling is part of Spec.    *)
(***************************************************************************)
PathPoolIds == 1 .. NumPathPools

PathPools(i) ==
    {MockPool(i, WETH, "T1"), MockPool(i, "T1", WETH),
     MockPool(i, "T1", "T2"), MockPool(i, "T2", WETH)}

\* The seeds of a call: the pool with all its directions, or with one.
SeedDirs(pool) == {pool.dirs} \cup {<<pool.dirs[k]>> : k \in 1 .. Len(pool.dirs)}

path_frame == << processed_pools, permits, pc, spawned, dropped, market_state,
                ms_lock, m_lock, readers, loaded, order, bg_waiting,
                bg_inflight, worker >>

InitP ==
    /\ market = add_token(EmptyMarket, [address |-> WETH, basic |-> TRUE])
    /\ result = "Ok"
    /\ InitLoader

\* The Market changes between calls: a returned value is compared with the
\* Market it was computed on, and is dropped before the Market changes.
PAddPool(pool) ==
    /\ built = NoCall
    /\ pool.id = Cardinality(DOMAIN market.pools) + 1
    /\ market' = add_pool(market, pool).market
    /\ result' = add_pool(market, pool).result
    /\ built' = NoCall
    /\ UNCHANGED path_frame

PSetPoolDisabled(address) ==
    /\ built = NoCall
    /\ is_pool(market, address)
    /\ market' = set_pool_disabled(market, address, TRUE)
    /\ result' = "Ok"
    /\ built' = NoCall
    /\ UNCHANGED path_frame

\* market.build_swap_path_vec(&directions), directions holding one pool.
Build(pool_id) ==
    /\ built = NoCall
    /\ is_pool(market, pool_id)
    /\ \E dirs \in SeedDirs(market.pools[pool_id]) :
       \E swap_paths \in build_swap_path_vec(market, pool_id, dirs) :
           built' = [call |-> "build_swap_path_vec", pool |-> pool_id,
                     dirs |-> dirs, paths |-> swap_paths]
    /\ UNCHANGED << market, result >>
    /\ UNCHANGED path_frame

\* The arguments of swap_path: token and pool vectors of fitting and of
\* unfitting lengths, over registered and unregistered tokens and pools.
TokenVecs == {<<WETH>>, <<WETH, WETH>>, <<WETH, "T1", WETH>>}

PoolVecs == {<<1>>, <<1, 2>>}

SwapPathCall(token_address_vec, pool_address_vec) ==
    /\ built = NoCall
    /\ built' = [call |-> "swap_path", tokens |-> token_address_vec,
                 pools |-> pool_address_vec,
                 ret |-> swap_path(market, token_address_vec, pool_address_vec)]
    /\ UNCHANGED << market, result >>
    /\ UNCHANGED path_frame

\* The caller drops the returned value.
PDrop ==
    /\ built # NoCall
    /\ built' = NoCall
    /\ UNCHANGED << market, result >>
    /\ UNCHANGED path_frame

NextP ==
    \/ PDrop
    \/ \E i \in PathPoolIds : \E pool \in PathPools(i) : PAddPool(pool)
    \/ \E address \in PathPoolIds : PSetPoolDisabled(address)
    \/ \E pool_id \in PathPoolIds : Build(pool_id)
    \/ \E tv \in TokenVecs, pv \in PoolVecs : SwapPathCall(tv, pv)

SpecPaths == InitP /\ [][NextP]_vars

(***************************************************************************)
(* Pool loader (pool_loader_actor.rs).  The worker receives batches of     *)
(* pool ids and spawns one task per id it has not seen.  A task is at:     *)
(*   none      no task was spawned for the id                              *)
(*   spawned   spawned, waiting in sema.acquire()                 (:61)    *)
(*   load      permit held, load_pool_with_provider outstanding   (:105)   *)
(*   fetch     fetch_calls_and_slots outstanding                  (:123)   *)
(*   ms_wait   waiting in market_state.write()                    (:127)   *)
(*   ms_held   MarketState guard held                             (:128)   *)
(*   m_wait    waiting in market.write()                          (:141)   *)
(*   m_held    Market guard held, add_pool not yet called         (:144)   *)
(*   m_added   add_pool done, paths not yet built                 (:146)   *)
(*   ok, err   fetch_and_add_pool_by_pool_id returned, permit dropped      *)
(***************************************************************************)
\* What load_pool_with_provider yields for a pool id.
LoadedPool(pool_id) ==
    IF pool_id % 3 = 0 THEN MockPool(pool_id, "T1", "T1")
    ELSE MockPool(pool_id, WETH, "T1")

Batches == UNION {[1 .. n -> PoolIds] : n \in 1 .. MaxBatch}

\* A plausible slip: the worker never takes an id as seen.
already_processed_never(processed, pool_id) == FALSE

\* processed_pools.insert(pool_id, true).is_some() (:50)
already_processed(processed, pool_id) == pool_id \in processed

\* The worker's loop over one FetchAndAddPools batch (:48-84).
RECURSIVE recv_pools(_, _)
recv_pools(w, pools) ==
    IF pools = << >> THEN w
    ELSE LET pool_id == Head(pools)
         IN IF already_processed(w.processed_pools, pool_id)
            THEN recv_pools([w EXCEPT !.processed_pools = @ \cup {pool_id},
                                      !.dropped = @ \cup {pool_id}],
                            Tail(pools))
            ELSE recv_pools([w EXCEPT !.processed_pools = @ \cup {pool_id},
                                      !.pc[pool_id] = "spawned",
                                      !.spawned[pool_id] = @ + 1],
                            Tail(pools))

Worker ==
    [processed_pools |-> processed_pools, pc |-> pc, spawned |-> spawned,
     dropped |-> dropped]

\* A plausible slip: a permit is handed out although none is free.
acquire_ready_always(free) == TRUE

\* Semaphore::acquire completes when a permit is free (:61).
acquire_ready(free) == free > 0

PermitHeld == {"load", "fetch", "ms_wait", "ms_held", "m_wait", "m_held", "m_added"}

RpcOutstanding == {"load", "fetch"}

InitLoaderMarket == add_token(EmptyMarket, [address |-> WETH, basic |-> TRUE])

InitL ==
    /\ market = InitLoaderMarket
    /\ result = "Ok"
    /\ InitLoader

\* tasks_rx.recv() returned a FetchAndAddPools batch to the running worker.
Recv(pools) ==
    LET w == recv_pools(Worker, pools)
    IN /\ worker = "running"
       /\ processed_pools' = w.processed_pools
       /\ pc' = w.pc
       /\ spawned' = w.spawned
       /\ dropped' = w.dropped
       /\ UNCHANGED << worker, built, market, result, permits, market_state, ms_lock, m_lock,
                       readers, loaded, order, bg_waiting, bg_inflight >>

Acquire(p) ==
    /\ pc[p] = "spawned"
    /\ acquire_ready(permits)
    /\ permits' = permits - 1
    /\ pc' = [pc EXCEPT ![p] = "load"]
    /\ UNCHANGED << worker, built, market, result, processed_pools, spawned, dropped,
                    market_state, ms_lock, m_lock, readers, loaded, order,
                    bg_waiting, bg_inflight >>

\* load_pool_with_provider returned the pool and get_state_required is Ok.
LoadOk(p) ==
    /\ pc[p] = "load"
    /\ pc' = [pc EXCEPT ![p] = "fetch"]
    /\ UNCHANGED << worker, built, market, result, processed_pools, permits, spawned, dropped,
                    market_state, ms_lock, m_lock, readers, loaded, order,
                    bg_waiting, bg_inflight >>

\* A plausible slip: the error of a task ends the worker's loop.
Fail_halts_worker(p) ==
    /\ pc[p] \in RpcOutstanding
    /\ pc' = [pc EXCEPT ![p] = "err"]
    /\ permits' = permits + 1
    /\ worker' = "cancelled"
    /\ UNCHANGED << built, market, result, processed_pools, spawned, dropped,
                    market_state, ms_lock, m_lock, readers, loaded, order,
                    bg_waiting, bg_inflight >>

\* A plausible slip: the update is applied before the result of the fetch is
\* looked at, so that a task fails with MarketState already written.
Fail_after_state_write(p) ==
    /\ pc[p] \in RpcOutstanding \cup {"m_wait"}
    /\ pc' = [pc EXCEPT ![p] = "err"]
    /\ permits' = permits + 1
    /\ UNCHANGED << worker, built, market, result, processed_pools, spawned, dropped,
                    market_state, ms_lock, m_lock, readers, loaded, order,
                    bg_waiting, bg_inflight >>

\* load_pool_with_provider (:105), get_state_required (:159) or
\* fetch_calls_and_slots (:154) failed: the error is logged, the permit dropped.
Fail(p) ==
    /\ pc[p] \in RpcOutstanding
    /\ pc' = [pc EXCEPT ![p] = "err"]
    /\ permits' = permits + 1
    /\ UNCHANGED << worker, built, market, result, processed_pools, spawned, dropped,
                    market_state, ms_lock, m_lock, readers, loaded, order,
                    bg_waiting, bg_inflight >>

FetchOk(p) ==
    /\ pc[p] = "fetch"
    /\ pc' = [pc EXCEPT ![p] = "ms_wait"]
    /\ UNCHANGED << worker, built, market, result, processed_pools, permits, spawned, dropped,
                    market_state, ms_lock, m_lock, readers, loaded, order,
                    bg_waiting, bg_inflight >>

StateLock(p) ==
    /\ pc[p] = "ms_wait"
    /\ ms_lock = 0
    /\ ms_lock' = p
    /\ pc' = [pc EXCEPT ![p] = "ms_held"]
    /\ UNCHANGED << worker, built, market, result, processed_pools, permits, spawned, dropped,
                    market_state, m_lock, readers, loaded, order, bg_waiting,
                    bg_inflight >>

\* A plausible slip: the MarketState guard is kept until the task ends.
StateWrite_keeps_guard(p) ==
    /\ pc[p] = "ms_held"
    /\ market_state' = [state |-> market_state.state \cup {p},
                        force_insert |-> market_state.force_insert \cup {p},
                        cell_vec_disabled |-> market_state.cell_vec_disabled \cup {p}]
    /\ pc' = [pc EXCEPT ![p] = "m_wait"]
    /\ UNCHANGED << worker, built, market, result, processed_pools, permits, spawned, dropped,
                    ms_lock, m_lock, readers, loaded, order, bg_waiting,
                    bg_inflight >>

\* A plausible slip: the guard is taken and dropped, the update not applied.
StateWrite_no_apply(p) ==
    /\ pc[p] = "ms_held"
    /\ ms_lock' = 0
    /\ pc' = [pc EXCEPT ![p] = "m_wait"]
    /\ UNCHANGED << worker, built, market, result, processed_pools, permits, spawned, dropped,
                    market_state, m_lock, readers, loaded, order, bg_waiting,
                    bg_inflight >>

\* apply_geth_update, add_force_insert, disable_cell_vec, drop (:128-132).
StateWrite(p) ==
    /\ pc[p] = "ms_held"
    /\ market_state' = [state |-> market_state.state \cup {p},
                        force_insert |-> market_state.force_insert \cup {p},
                        cell_vec_disabled |-> market_state.cell_vec_disabled \cup {p}]
    /\ ms_lock' = 0
    /\ pc' = [pc EXCEPT ![p] = "m_wait"]
    /\ UNCHANGED << worker, built, market, result, processed_pools, permits, spawned, dropped,
                    m_lock, readers, loaded, order, bg_waiting, bg_inflight >>

MarketLock(p) ==
    /\ pc[p] = "m_wait"
    /\ m_lock = 0
    /\ readers = 0
    /\ m_lock' = p
    /\ pc' = [pc EXCEPT ![p] = "m_held"]
    /\ UNCHANGED << worker, built, market, result, processed_pools, permits, spawned, dropped,
                    market_state, ms_lock, readers, loaded, order, bg_waiting,
                    bg_inflight >>

\* A plausible slip: the Market guard is dropped after add_pool.
MarketAddPool_drops_guard(p) ==
    /\ pc[p] = "m_held"
    /\ market' = add_pool(market, LoadedPool(p)).market
    /\ loaded' = IF add_pool(market, LoadedPool(p)).result = "Ok"
                 THEN loaded \cup {p} ELSE loaded
    /\ m_lock' = 0
    /\ pc' = [pc EXCEPT ![p] = "m_added"]
    /\ UNCHANGED << worker, built, result, processed_pools, permits, spawned, dropped,
                    market_state, ms_lock, readers, order, bg_waiting,
                    bg_inflight >>

\* A plausible slip: the error of add_pool is returned with `?`.
MarketAddPool_fails_on_duplicate(p) ==
    /\ pc[p] = "m_held"
    /\ market' = add_pool(market, LoadedPool(p)).market
    /\ loaded' = IF add_pool(market, LoadedPool(p)).result = "Ok"
                 THEN loaded \cup {p} ELSE loaded
    /\ pc' = [pc EXCEPT ![p] = IF add_pool(market, LoadedPool(p)).result = "Ok"
                                THEN "m_added" ELSE "err"]
    /\ m_lock' = IF add_pool(market, LoadedPool(p)).result = "Ok" THEN m_lock ELSE 0
    /\ permits' = IF add_pool(market, LoadedPool(p)).result = "Ok"
                  THEN permits ELSE permits + 1
    /\ UNCHANGED << worker, built, result, processed_pools, spawned, dropped,
                    market_state, ms_lock, readers, order, bg_waiting,
                    bg_inflight >>

\* let _ = market_write_guard.add_pool(pool_wrapped) (:144)
MarketAddPool(p) ==
    /\ pc[p] = "m_held"
    /\ market' = add_pool(market, LoadedPool(p)).market
    /\ loaded' = IF add_pool(market, LoadedPool(p)).result = "Ok"
                 THEN loaded \cup {p} ELSE loaded
    /\ pc' = [pc EXCEPT ![p] = "m_added"]
    /\ UNCHANGED << worker, built, result, processed_pools, permits, spawned, dropped,
                    market_state, ms_lock, m_lock, readers, order, bg_waiting,
                    bg_inflight >>

\* A plausible slip: the directions tree holds the pool's first direction only.
MarketPaths_first_direction(p) ==
    /\ pc[p] = "m_added"
    /\ \E swap_paths \in build_swap_path_vec(market, p, <<LoadedPool(p).dirs[1]>>) :
           market' = add_paths(market, swap_paths)
    /\ m_lock' = IF m_lock = p THEN 0 ELSE m_lock
    /\ order' = Append(order, [task |-> p, pool |-> p])
    /\ permits' = permits + 1
    /\ pc' = [pc EXCEPT ![p] = "ok"]
    /\ UNCHANGED << worker, built, result, processed_pools, spawned, dropped, market_state,
                    ms_lock, readers, loaded, bg_waiting, bg_inflight >>

\* A plausible slip: the Market guard outlives the task (it is leaked).
MarketPaths_keeps_guard(p) ==
    /\ pc[p] = "m_added"
    /\ \E swap_paths \in build_swap_path_vec(market, p, LoadedPool(p).dirs) :
           market' = add_paths(market, swap_paths)
    /\ order' = Append(order, [task |-> p, pool |-> p])
    /\ permits' = permits + 1
    /\ pc' = [pc EXCEPT ![p] = "ok"]
    /\ UNCHANGED << worker, built, result, processed_pools, spawned, dropped, market_state,
                    ms_lock, m_lock, readers, loaded, bg_waiting, bg_inflight >>

\* build_swap_path_vec, add_paths, drop of the guard, Ok(()), drop of the
\* permit (:146-150, :165, :77)
MarketPaths(p) ==
    /\ pc[p] = "m_added"
    /\ \E swap_paths \in build_swap_path_vec(market, p, LoadedPool(p).dirs) :
           market' = add_paths(market, swap_paths)
    /\ m_lock' = IF m_lock = p THEN 0 ELSE m_lock
    /\ order' = Append(order, [task |-> p, pool |-> p])
    /\ permits' = permits + 1
    /\ pc' = [pc EXCEPT ![p] = "ok"]
    /\ UNCHANGED << worker, built, result, processed_pools, spawned, dropped, market_state,
                    ms_lock, readers, loaded, bg_waiting, bg_inflight >>

\* Another writer of Market (the comment at :143 names the db pool loader)
\* adds the first pool on its own.
ExternalPools == {LoadedPool(1)}

ExternalAddPool(pool) ==
    /\ m_lock = 0
    /\ readers = 0
    /\ add_pool(market, pool).result = "Ok"
    /\ market' = add_pool(market, pool).market
    /\ order' = Append(order, [task |-> 0, pool |-> pool.id])
    /\ UNCHANGED << worker, built, result, processed_pools, permits, pc, spawned, dropped, market_state,
                    ms_lock, m_lock, readers, loaded, bg_waiting, bg_inflight >>

\* A reader of Market (path search, encoders) takes and drops the read lock.
ReadLock ==
    /\ m_lock = 0
    /\ readers = 0
    /\ readers' = readers + 1
    /\ UNCHANGED << worker, built, market, result, processed_pools, permits, pc, spawned,
                    dropped, market_state, ms_lock, m_lock, loaded, order,
                    bg_waiting, bg_inflight >>

ReadUnlock ==
    /\ readers > 0
    /\ readers' = readers - 1
    /\ UNCHANGED << worker, built, market, result, processed_pools, permits, pc, spawned,
                    dropped, market_state, ms_lock, m_lock, loaded, order,
                    bg_waiting, bg_inflight >>

\* The worker is cancelled: the JoinHandle that PoolLoaderActor::start
\* returned (:208-215) is aborted, and the worker's loop stops at its
\* suspension point, recv (:42).  The tasks the loop spawned (:60) are
\* detached: their JoinHandles were dropped, and they are not tied to the
\* worker's handle, so they keep running.
Cancel ==
    /\ worker = "running"
    /\ worker' = "cancelled"
    /\ UNCHANGED << market, result, processed_pools, permits, pc, spawned,
                    dropped, market_state, ms_lock, m_lock, readers, loaded,
                    order, bg_waiting, bg_inflight, built >>

NextL ==
    \/ \E pools \in Batches : Recv(pools)
    \/ Cancel
    \/ \E p \in PoolIds : Acquire(p)
    \/ \E p \in PoolIds : LoadOk(p)
    \/ \E p \in PoolIds : Fail(p)
    \/ \E p \in PoolIds : FetchOk(p)
    \/ \E p \in PoolIds : StateLock(p)
    \/ \E p \in PoolIds : StateWrite(p)
    \/ \E p \in PoolIds : MarketLock(p)
    \/ \E p \in PoolIds : MarketAddPool(p)
    \/ \E p \in PoolIds : MarketPaths(p)
    \/ \E pool \in ExternalPools : ExternalAddPool(pool)
    \/ ReadLock
    \/ ReadUnlock

SpecLoader == InitL /\ [][NextL]_vars

\* The runtime polls every spawned task, and with fewer tasks than permits
\* sema.acquire() (:61) is ready whenever it is polled: a spawned task
\* does not wait for its permit forever.
SpecLoaderFair == SpecLoader /\ \A p \in PoolIds : WF_vars(Acquire(p))

\* A step of the task spawned for pool p.
TaskStep(p) ==
    \/ Acquire(p) \/ LoadOk(p) \/ FetchOk(p) \/ Fail(p)
    \/ StateLock(p) \/ StateWrite(p)
    \/ MarketLock(p) \/ MarketAddPool(p) \/ MarketPaths(p)

\* SpecLoaderLive: every RPC a task waits for returns, with the pool or the
\* state or with an error, and the runtime polls every spawned task, so a
\* task that can take a step takes one; the locks are tokio's RwLock, whose
\* waiters are served in the order they arrived, so a task waiting for a
\* lock that is free again and again gets it (strong fairness); a reader of
\* Market drops its guard.
SpecLoaderLive ==
    /\ SpecLoader
    /\ \A p \in PoolIds : SF_vars(TaskStep(p))
    /\ WF_vars(ReadUnlock)

(***************************************************************************)
(* SpecSema: the semaphore under more tasks than permits.  The tasks are   *)
(* those of pools whose instantiation fails (load_pool_with_provider       *)
(* returns Err): such a task is spawned, acquires a permit, fails and      *)
(* drops the permit, and touches neither lock.  They differ in nothing but *)
(* their pool id, so they are kept by number.                              *)
(***************************************************************************)
BgRecv ==
    /\ worker = "running"
    /\ bg_waiting + bg_inflight < NumUnloadable
    /\ bg_waiting' = bg_waiting + 1
    /\ UNCHANGED << worker, built, market, result, processed_pools, permits, pc, spawned,
                    dropped, market_state, ms_lock, m_lock, readers, loaded,
                    order, bg_inflight >>

BgAcquire ==
    /\ bg_waiting > 0
    /\ acquire_ready(permits)
    /\ permits' = permits - 1
    /\ bg_waiting' = bg_waiting - 1
    /\ bg_inflight' = bg_inflight + 1
    /\ UNCHANGED << worker, built, market, result, processed_pools, pc, spawned, dropped,
                    market_state, ms_lock, m_lock, readers, loaded, order >>

BgFail ==
    /\ bg_inflight > 0
    /\ permits' = permits + 1
    /\ bg_inflight' = bg_inflight - 1
    /\ UNCHANGED << worker, built, market, result, processed_pools, pc, spawned, dropped,
                    market_state, ms_lock, m_lock, readers, loaded, order,
                    bg_waiting >>

NextSema == BgRecv \/ BgAcquire \/ BgFail

SpecSema == InitL /\ [][NextSema]_vars


(***************************************************************************)
(* Claims about the pool loader.                                           *)
(***************************************************************************)
InFlight == bg_inflight + Cardinality({p \in PoolIds : pc[p] \in PermitHeld})

\* C5 (SpecSema): at every moment at most MAX_CONCURRENT_TASKS spawned
\* tasks are between acquiring and dropping a semaphore permit, however many
\* tasks have been accepted.
C5_AtMostMaxInFlight == InFlight <= MAX_CONCURRENT_TASKS

\* Every permit is taken and more accepted tasks wait for one.
C5_Witness == bg_inflight = MAX_CONCURRENT_TASKS /\ bg_waiting > 0 /\ permits = 0

\* C6 (SpecLoader): for each pool id at most one task is spawned, the id is
\* in processed_pools from the moment the task is accepted, and a later task
\* carrying the id is dropped wherever the first task stands.
C6_AtMostOneFetchPerPool ==
    \A p \in PoolIds :
        /\ spawned[p] <= 1
        /\ pc[p] # "none" <=> p \in processed_pools
        /\ p \in processed_pools =>
               recv_pools(Worker, <<p>>) = [Worker EXCEPT !.dropped = @ \cup {p}]

\* Duplicates were dropped for a pool whose task failed and for a pool whose
\* task succeeded.
C6_Witness ==
    \E p, q \in PoolIds :
        /\ p \in dropped /\ pc[p] = "err" /\ spawned[p] = 1
        /\ q \in dropped /\ pc[q] = "ok" /\ spawned[q] = 1

\* C7 (SpecLoader): a pool whose task failed in steps 1-3 is not remembered
\* as processed, and a later task for it is accepted.
C7_FailedPoolNotRemembered ==
    \A p \in PoolIds :
        pc[p] = "err" =>
            /\ p \notin processed_pools
            /\ recv_pools(Worker, <<p>>).pc[p] = "spawned"

StateApplied(p) ==
    /\ p \in market_state.state
    /\ p \in market_state.force_insert
    /\ p \in market_state.cell_vec_disabled

\* C8 (SpecLoader): a task has written MarketState and released its lock
\* before it asks for the Market lock, so a pool the loader has inserted into
\* Market has its fetched state applied.
C8_StateBeforeInsertion ==
    \A p \in PoolIds :
        /\ pc[p] \in {"m_wait", "m_held", "m_added", "ok"} =>
               StateApplied(p) /\ ms_lock # p
        /\ p \in loaded => is_pool(market, p) /\ StateApplied(p)

\* A task has inserted its pool and still holds the Market lock, while
\* another task is writing MarketState.
C8_Witness ==
    \E p, q \in PoolIds :
        /\ p \in loaded /\ pc[p] = "m_added" /\ is_pool(market, p)
        /\ pc[q] = "ms_held"

\* C9 (SpecLoader): a task never holds the MarketState lock and the Market
\* lock together, and holds neither while one of its RPC calls is outstanding.
C9_LockDiscipline ==
    \A p \in PoolIds :
        /\ ~(ms_lock = p /\ m_lock = p)
        /\ pc[p] \in RpcOutstanding => ms_lock # p /\ m_lock # p
        /\ ms_lock = p => pc[p] = "ms_held"
        /\ m_lock = p => pc[p] \in {"m_held", "m_added"}

\* Both locks are held, by different tasks.
C9_Witness ==
    /\ ms_lock # 0
    /\ m_lock # 0
    /\ pc[ms_lock] = "ms_held"
    /\ pc[m_lock] = "m_added"

SectionPools == {order[k].pool : k \in 1 .. Len(order)}

\* C10 (SpecLoader): add_pool, build_swap_path_vec and add_paths of a task
\* fall in one Market write-lock span: between them the task holds the lock
\* and no reader does, the path builder sees its own pool and exactly the
\* pools of the write sections released before, and a reader sees no pool of
\* the loader whose paths are not merged yet.
C10_MarketSectionAtomic ==
    /\ \A p \in PoolIds :
          /\ pc[p] \in {"m_held", "m_added"} => m_lock = p /\ readers = 0
          /\ pc[p] = "m_added" => DOMAIN market.pools = SectionPools \cup {p}
    /\ readers > 0 =>
          /\ m_lock = 0
          /\ AdjacencyCovers(market)
          /\ \A p \in loaded : pc[p] = "ok"

\* A task is about to build its paths on a Market that holds the pool of a
\* task that finished before it.
C10_Witness ==
    \E p, q \in PoolIds :
        /\ p # q
        /\ pc[p] = "m_added" /\ pc[q] = "ok"
        /\ DOMAIN market.pools = {p, q}
        /\ Len(market.swap_paths.paths) = 0

\* A reader holds the lock on a Market with both pools and their paths.
C10_ReaderWitness ==
    /\ readers > 0
    /\ Cardinality(loaded) = 2
    /\ Len(market.swap_paths.paths) = 2

\* C11 (SpecLoader): once the worker has been cancelled, no task it spawned
\* goes on to acquire a lock and write MarketState or Market: no task gets
\* past market_state.write().await or market.write().await, the suspension
\* points before its writes.
C11_CancelStopsTasks ==
    [][worker = "cancelled" =>
          \A p \in PoolIds : ~StateLock(p) /\ ~MarketLock(p)]_vars

\* C12 (SpecLoaderFair): the failure of a task does not halt the worker: the
\* failing step leaves the worker's loop as it is, after it a task for a pool
\* not yet accepted is accepted, and the fetch of an accepted task
\* eventually starts.
C12_FailureKeepsWorker ==
    /\ [][\A p \in PoolIds : Fail(p) => worker' = worker]_vars
    /\ [](\A p, q \in PoolIds :
             (pc[p] = "err" /\ worker = "running" /\ q \notin processed_pools) =>
                 recv_pools(Worker, <<q>>).pc[q] = "spawned")
    /\ \A p, q \in PoolIds :
           (pc[p] = "err" /\ pc[q] = "spawned") ~> (pc[q] # "spawned")

\* After the failure of one task the worker, still running, has accepted
\* the task of another pool, and its fetch has started.
C12_Witness ==
    \E p, q \in PoolIds :
        /\ pc[p] = "err" /\ pc[q] \in RpcOutstanding
        /\ worker = "running"
        /\ permits = MAX_CONCURRENT_TASKS - 1

HasPath(m, path) ==
    \E i \in 1 .. Len(m.swap_paths.paths) : SamePath(m.swap_paths.paths[i], path)

\* C13 (SpecLoader): when add_pool reports Duplicate in step 4 the task goes
\* on with the Market as it was, still under the lock; the paths seeded with
\* the pool's directions are built and merged into the path index, and the
\* task ends successfully.
C13_DuplicateIgnored ==
    [][\A p \in PoolIds :
          /\ (MarketAddPool(p) /\ is_pool(market, p)) =>
                 /\ market' = market
                 /\ pc'[p] = "m_added"
                 /\ m_lock' = p
          /\ (MarketPaths(p) /\ p \notin loaded) =>
                 /\ pc'[p] = "ok"
                 /\ market'.pools = market.pools
                 /\ market'.token_token_pools = market.token_token_pools
                 /\ \A path \in swap_path_set(market, p, LoadedPool(p).dirs) :
                        HasPath(market', path)]_vars

\* A task found its pool already inserted by another writer, and ended
\* successfully with paths through the pool in the index.
C13_Witness ==
    \E p \in PoolIds :
        /\ pc[p] = "ok"
        /\ p \notin loaded
        /\ is_pool(market, p)
        /\ \E i \in PathsThrough(market, p) : market.swap_paths.paths[i].pools[2] = p

(***************************************************************************)
(* Claims about the path builder and swap_path, checked under SpecPaths.   *)
(***************************************************************************)
Built == built.call = "build_swap_path_vec"

\* C14 (SpecPaths): every path build_swap_path_vec returns for the seeded
\* directions of pool P begins and ends with the same token, that token is
\* basic, the path has 2 or 3 hops, and P occurs in it on a seeded direction.
C14_BuiltPathsAnchored ==
    Built =>
        \A k \in 1 .. Len(built.paths) :
            LET path == built.paths[k]
            IN /\ path.tokens[1] = path.tokens[Len(path.tokens)]
               /\ is_basic_token(market, path.tokens[1])
               /\ Len(path.pools) \in {2, 3}
               /\ \E h \in 1 .. Len(path.pools) :
                      /\ path.pools[h] = built.pool
                      /\ <<path.tokens[h], path.tokens[h + 1]>> \in Range(built.dirs)

\* A call seeded with one direction returned a 3-hop path, on a Market where T1 is a token but not a basic one.
C14_Witness ==
    /\ Built
    /\ Len(built.dirs) = 1
    /\ \E k \in 1 .. Len(built.paths) : Len(built.paths[k].pools) = 3
    /\ ~is_basic_token(market, "T1")

\* The hops the pools of the Market offer, read from what each registered
\* pool reports (not from the adjacency maps): a pool with one of its
\* directions, for the pools that carry no disabled mark.
Hops(m) ==
    {h \in (DOMAIN m.pools) \X {1, 2} :
        ~(h[1] \in DOMAIN m.pools_disabled /\ m.pools_disabled[h[1]])}

HopFrom(m, h) == m.pools[h[1]].dirs[h[2]][1]

HopTo(m, h) == m.pools[h[1]].dirs[h[2]][2]

\* The 2- and 3-hop cycles through pool_id on a direction of dirs.
CyclesThrough(m, pool_id, dirs) ==
    {SwapPath(<<HopFrom(m, c[1]), HopTo(m, c[1]), HopTo(m, c[2])>>,
              <<c[1][1], c[2][1]>>) :
        c \in {c \in Hops(m) \X Hops(m) :
                 /\ HopTo(m, c[1]) = HopFrom(m, c[2])
                 /\ HopTo(m, c[2]) = HopFrom(m, c[1])
                 /\ is_basic_token(m, HopFrom(m, c[1]))
                 /\ c[1][1] # c[2][1]
                 /\ \E k \in 1 .. 2 :
                        /\ c[k][1] = pool_id
                        /\ <<HopFrom(m, c[k]), HopTo(m, c[k])>> \in Range(dirs)}}
    \cup
    {SwapPath(<<HopFrom(m, c[1]), HopTo(m, c[1]), HopTo(m, c[2]), HopTo(m, c[3])>>,
              <<c[1][1], c[2][1], c[3][1]>>) :
        c \in {c \in Hops(m) \X Hops(m) \X Hops(m) :
                 /\ HopTo(m, c[1]) = HopFrom(m, c[2])
                 /\ HopTo(m, c[2]) = HopFrom(m, c[3])
                 /\ HopTo(m, c[3]) = HopFrom(m, c[1])
                 /\ is_basic_token(m, HopFrom(m, c[1]))
                 /\ c[1][1] # c[2][1] /\ c[2][1] # c[3][1] /\ c[1][1] # c[3][1]
                 /\ \E k \in 1 .. 3 :
                        /\ c[k][1] = pool_id
                        /\ <<HopFrom(m, c[k]), HopTo(m, c[k])>> \in Range(dirs)}}

TwoPoolsMarket ==
    /\ market.pools = <<MockPool(1, WETH, "T1"), MockPool(2, WETH, "T1")>>
    /\ market.pools_disabled = EmptyMap

TriangleMarket ==
    /\ market.pools = <<MockPool(1, "T1", WETH), MockPool(2, "T1", "T2"),
                        MockPool(3, "T2", WETH)>>
    /\ market.pools_disabled = EmptyMap

\* C15 (SpecPaths): build_swap_path_vec seeded with pool P returns exactly
\* the 2- and 3-hop cycles anchored at a basic token that pass through P on
\* a seeded direction over the non-disabled pools, each once, the same
\* pools in reverse being another path: two pools over (WETH,T1) seeded with
\* the second yield [P1,P2] and [P2,P1]; the triangle P1(T1,WETH),
\* P2(T1,T2), P3(T2,WETH) seeded with P3 yields [P1,P2,P3] and [P3,P2,P1].
C15_BuiltExactlyCycles ==
    Built =>
        /\ Range(built.paths) = CyclesThrough(market, built.pool, built.dirs)
        /\ \A j, k \in 1 .. Len(built.paths) :
               SamePath(built.paths[j], built.paths[k]) => j = k
        /\ (TwoPoolsMarket /\ built.pool = 2 /\ Len(built.dirs) = 2) =>
               /\ Len(built.paths) = 2
               /\ Range(built.paths) =
                      {SwapPath(<<WETH, "T1", WETH>>, <<1, 2>>),
                       SwapPath(<<WETH, "T1", WETH>>, <<2, 1>>)}
        /\ (TriangleMarket /\ built.pool = 3 /\ Len(built.dirs) = 2) =>
               /\ Len(built.paths) = 2
               /\ Range(built.paths) =
                      {SwapPath(<<WETH, "T1", "T2", WETH>>, <<1, 2, 3>>),
                       SwapPath(<<WETH, "T2", "T1", WETH>>, <<3, 2, 1>>)}

\* The call on the triangle, seeded with the third pool, has returned.
C15_Witness ==
    /\ Built
    /\ TriangleMarket
    /\ built.pool = 3
    /\ Len(built.dirs) = 2
    /\ Len(built.paths) = 2

\* C16 (SpecPaths): no path build_swap_path_vec returns holds a pool twice,
\* and none holds a pool whose pools_disabled entry is true at the call.
C16_BuiltPathsSimpleEnabled ==
    Built =>
        \A k \in 1 .. Len(built.paths) :
            LET pools == built.paths[k].pools
            IN /\ \A i, j \in 1 .. Len(pools) : pools[i] = pools[j] => i = j
               /\ \A i \in 1 .. Len(pools) :
                      ~(pools[i] \in DOMAIN market.pools_disabled
                        /\ market.pools_disabled[pools[i]])

\* The call returned paths while a disabled pool lies between the tokens
\* of the seeded pool.
C16_Witness ==
    /\ Built
    /\ Len(built.paths) > 0
    /\ \E q \in DOMAIN market.pools_disabled :
           /\ market.pools_disabled[q]
           /\ q # built.pool
           /\ market.pools[q].dirs = market.pools[built.pool].dirs

\* C17 (SpecPaths): for a fixed insertion history and the same seed
\* directions build_swap_path_vec returns the paths in the same order on
\* every run: the vector a call returned is the only one the call can return.
C17_BuiltOrderDeterministic ==
    Built => build_swap_path_vec(market, built.pool, built.dirs) = {built.paths}

ReachableFromItsPools(m, path) ==
    \A q \in Range(path.pools) :
        \E k \in 1 .. Len(get_pool_paths(m, q)) :
            SamePath(get_pool_paths(m, q)[k], path)

\* C18 (Spec): after add_paths(paths) every added path is among the paths
\* get_pool_paths returns for each of its pools, and every path of the index
\* stays so under later add_paths and set_pool_disabled calls.
C18_PathsReachableFromPools ==
    /\ \A i \in 1 .. Len(market.swap_paths.paths) :
           ReachableFromItsPools(market, market.swap_paths.paths[i])
    /\ \A paths \in PathVecs :
           \A j \in 1 .. Len(paths) :
               ReachableFromItsPools(add_paths(market, paths), paths[j])

\* Two paths are indexed under each of their two pools, one of which has
\* been disabled since.
C18_Witness ==
    /\ Len(market.swap_paths.paths) = 2
    /\ Len(get_pool_paths(market, 1)) = 2
    /\ Len(get_pool_paths(market, 2)) = 2
    /\ is_pool_disabled(market, 2)
    /\ market.swap_paths.paths[1].disabled

\* The arguments add_token is tried with on every Market of Spec.
TokenArgs == TokenInputs \cup {[address |-> "T1", basic |-> b] : b \in BOOLEAN}

\* C19 (Spec): add_token(T) upserts by address and touches nothing else:
\* afterwards get_token(T.address) is T, whatever was stored there, and
\* is_basic_token follows T; adding T again changes nothing; the other
\* tokens, pools, adjacency maps, pools_disabled and swap_paths are as before.
C19_AddTokenUpserts ==
    \A token \in TokenArgs :
        LET m1 == add_token(market, token)
        IN /\ get_token(m1, token.address) = <<token>>
           /\ is_basic_token(m1, token.address) = token.basic
           /\ add_token(m1, token) = m1
           /\ DOMAIN m1.tokens = DOMAIN market.tokens \cup {token.address}
           /\ \A a \in DOMAIN market.tokens \ {token.address} :
                  get_token(m1, a) = get_token(market, a)
           /\ m1.pools = market.pools
           /\ m1.token_tokens = market.token_tokens
           /\ m1.token_token_pools = market.token_token_pools
           /\ m1.token_pools = market.token_pools
           /\ m1.pools_disabled = market.pools_disabled
           /\ m1.swap_paths = market.swap_paths

\* WETH is stored as a non-basic token in a Market that has pools, a path
\* and a disabled mark: the next add_token of the basic WETH replaces it.
C19_Witness ==
    /\ get_token(market, WETH) = <<[address |-> WETH, basic |-> FALSE]>>
    /\ Cardinality(DOMAIN market.pools) = 2
    /\ Len(market.swap_paths.paths) > 0
    /\ \E id \in PoolIds : is_pool_disabled(market, id)

\* A path has one token more than pools, and each pool reports the
\* direction between the two tokens next to it.
WellShaped(m, tokens, pools) ==
    /\ Len(tokens) = Len(pools) + 1
    /\ \A h \in 1 .. Len(pools) :
           /\ is_pool(m, pools[h])
           /\ <<tokens[h], tokens[h + 1]>> \in Range(m.pools[pools[h]].dirs)

\* C20 (SpecPaths): every SwapPath that build_swap_path_vec or swap_path
\* hands out has tokens.len() = pools.len() + 1 with each pool connecting
\* the tokens next to it, and swap_path returns an error when its vectors do
\* not have that shape or name an unregistered token or pool.
C20_PathsWellShaped ==
    /\ Built =>
           \A k \in 1 .. Len(built.paths) :
               WellShaped(market, built.paths[k].tokens, built.paths[k].pools)
    /\ built.call = "swap_path" =>
           /\ built.ret.result = "Ok" =>
                  WellShaped(market, built.ret.path.tokens, built.ret.path.pools)
           /\ ~WellShaped(market, built.tokens, built.pools) =>
                  built.ret.result # "Ok"
           /\ (\E i \in 1 .. Len(built.tokens) : built.tokens[i] \notin DOMAIN market.tokens) =>
                  built.ret.result # "Ok"

\* The part of C20 the code keeps: the builder's paths are well shaped, and
\* swap_path returns an error for an unregistered token or pool.
C20_RegisteredOrError ==
    /\ Built =>
           \A k \in 1 .. Len(built.paths) :
               WellShaped(market, built.paths[k].tokens, built.paths[k].pools)
    /\ built.call = "swap_path" =>
           ((\/ \E i \in 1 .. Len(built.tokens) : built.tokens[i] \notin DOMAIN market.tokens
             \/ \E i \in 1 .. Len(built.pools) : ~is_pool(market, built.pools[i]))
            => built.ret.result = "TOKEN_NOT_FOUND")

(***************************************************************************)
(* Swap lines and their lowering to two steps (swap.rs).                   *)
(* SwapAmountType, SwapLine and SwapStep are declared outside the source   *)
(* files; they are modelled from the specification (section 3).            *)
(***************************************************************************)
MaxLinePools == 3

MULTICALLER == "MULTICALLER"

Set(value) == [type |-> "Set", value |-> value]

Stack0 == [type |-> "Stack0"]

RelativeStack(offset) == [type |-> "RelativeStack", offset |-> offset]

Balance(addr) == [type |-> "Balance", addr |-> addr]

NotSet == [type |-> "NotSet"]

SwapLine(tokens, pools, amount_in, amount_out) ==
    [tokens |-> tokens, pools |-> pools, amount_in |-> amount_in,
     amount_out |-> amount_out]

pool_count(swap_line) == Len(swap_line.pools)

\* A line can flash-swap when every pool of it can.
can_flash_swap(swap_line) ==
    \A k \in 1 .. Len(swap_line.pools) : swap_line.pools[k].can_flash_swap

\* swap_line.split(pool_index): the flash part holds the first pool_index
\* pools, the inside part the others; the flash part keeps the line's
\* amount_in and the inside part its amount_out.  The specification does not
\* say which amount_in the inside part gets, nor whether an index outside
\* [1, pool_count) is an error: both are left to the caller's environment
\* env = [inside_amount_in, index_checked].
split(swap_line, pool_index, env) ==
    IF env.index_checked /\ pool_index \notin 1 .. pool_count(swap_line) - 1
    THEN [result |-> "Err"]
    ELSE [result |-> "Ok",
          flash_path |->
              SwapLine(SubSeq(swap_line.tokens, 1, pool_index + 1),
                       SubSeq(swap_line.pools, 1, pool_index),
                       swap_line.amount_in, NotSet),
          inside_path |->
              SwapLine(SubSeq(swap_line.tokens, pool_index + 1, Len(swap_line.tokens)),
                       SubSeq(swap_line.pools, pool_index + 1, Len(swap_line.pools)),
                       env.inside_amount_in, swap_line.amount_out)]

\* SwapStep::new(multicaller) followed by add(swap_line).
SwapStep(multicaller, swap_line) ==
    [swap_to |-> multicaller, swap_line_vec |-> <<swap_line>>]

\* A plausible slip: the loop does not break, and keeps the last such split.
RECURSIVE last_flash_split(_, _, _)
last_flash_split(swap_line, i, env) ==
    IF i >= pool_count(swap_line) THEN [result |-> "None"]
    ELSE LET sp == split(swap_line, i, env)
             later == last_flash_split(swap_line, i + 1, env)
         IN  IF later.result = "Ok" THEN later
             ELSE IF can_flash_swap(sp.flash_path) \/ can_flash_swap(sp.inside_path)
                  THEN sp
                  ELSE later

\* The loop of swap.rs:36-43, from index i on: the first split one side of
\* which can flash-swap, or none.
RECURSIVE first_flash_split(_, _, _)
first_flash_split(swap_line, i, env) ==
    IF i >= pool_count(swap_line) THEN [result |-> "None"]
    ELSE LET sp == split(swap_line, i, env)
         IN  IF can_flash_swap(sp.flash_path) \/ can_flash_swap(sp.inside_path)
             THEN sp
             ELSE first_flash_split(swap_line, i + 1, env)

\* A plausible slip: the inside part keeps the amount_in the split gave it.
swap_steps_of_keeps_amount(sp, multicaller) ==
    [ret |-> "Some",
     step_0 |-> SwapStep(multicaller, sp.flash_path),
     step_1 |-> SwapStep(multicaller, sp.inside_path)]

\* A plausible slip: both steps are made of the flash part.
swap_steps_of_flash_twice(sp, multicaller) ==
    [ret |-> "Some",
     step_0 |-> SwapStep(multicaller, sp.flash_path),
     step_1 |-> SwapStep(multicaller,
                         [sp.flash_path EXCEPT !.amount_in = Balance(multicaller)])]

\* The steps made of the two parts of a split (swap.rs:51-59).
swap_steps_of(sp, multicaller) ==
    [ret |-> "Some",
     step_0 |-> SwapStep(multicaller, sp.flash_path),
     step_1 |-> SwapStep(multicaller,
                         [sp.inside_path EXCEPT !.amount_in = Balance(multicaller)])]

\* The BackrunSwapLine arm of to_swap_steps (swap.rs:32-60): the first split
\* found by the loop, or the split at 1; unwrap() of a failed split panics.
backrun_line_steps(swap_line, multicaller, env) ==
    LET found == first_flash_split(swap_line, 1, env)
        sp == IF found.result = "Ok" THEN found ELSE split(swap_line, 1, env)
    IN  IF sp.result = "Err" THEN [ret |-> "panic"]
        ELSE swap_steps_of(sp, multicaller)

\* Swap::to_swap_steps (swap.rs:30-64).
to_swap_steps(swap, multicaller, env) ==
    CASE swap.kind = "BackrunSwapLine" ->
             backrun_line_steps(swap.swap_line, multicaller, env)
      [] swap.kind = "BackrunSwapSteps" ->
             [ret |-> "Some", step_0 |-> swap.sp0, step_1 |-> swap.sp1]
      [] OTHER -> [ret |-> "None"]

(***************************************************************************)
(* SpecSwap: to_swap_steps called on swaps of every variant, the lines of  *)
(* up to MaxLinePools pools, each pool able to flash-swap or not.          *)
(***************************************************************************)
LineAddresses == {"P1", "P2", "P3"}

LineTokenNames == <<"T1", "T2", "T3", "T4", "T5">>

\* The tokens of a line of n pools: a cycle from WETH to WETH.
LineTokens(n) ==
    [k \in 1 .. n + 1 |-> IF k = 1 \/ k = n + 1 THEN WETH ELSE LineTokenNames[k - 1]]

FlashPools ==
    {[address |-> a, class |-> "UniswapV2", can_flash_swap |-> f] :
        a \in LineAddresses, f \in BOOLEAN}

LineAmounts == {Set(100), Stack0, Balance(MULTICALLER), NotSet}

BackrunLines ==
    UNION {{SwapLine(LineTokens(n), pools, amount_in, Set(110)) :
               pools \in [1 .. n -> FlashPools], amount_in \in LineAmounts}
           : n \in 1 .. MaxLinePools}

SampleLine ==
    SwapLine(LineTokens(2),
             <<[address |-> "P1", class |-> "UniswapV2", can_flash_swap |-> TRUE],
               [address |-> "P2", class |-> "UniswapV2", can_flash_swap |-> FALSE]>>,
             Set(100), Set(110))

Swaps ==
    {[kind |-> "BackrunSwapLine", swap_line |-> l] : l \in BackrunLines}
    \cup {[kind |-> "None"],
          [kind |-> "ExchangeSwapLine", swap_line |-> SampleLine],
          [kind |-> "Multiple", swap_vec |-> << >>],
          [kind |-> "BackrunSwapSteps",
           sp0 |-> SwapStep(MULTICALLER, SampleLine),
           sp1 |-> SwapStep(MULTICALLER, SampleLine)]}

SplitEnvs ==
    {[inside_amount_in |-> a, index_checked |-> c] :
        a \in {Stack0, NotSet, Set(100)}, c \in BOOLEAN}

Multicallers == {MULTICALLER, "M2"}

ToSwapSteps(swap, multicaller, env) ==
    /\ built = NoCall
    /\ built' = [call |-> "to_swap_steps", swap |-> swap,
                 multicaller |-> multicaller, env |-> env,
                 ret |-> to_swap_steps(swap, multicaller, env)]
    /\ UNCHANGED << market, result >>
    /\ UNCHANGED path_frame

NextS ==
    \/ PDrop
    \/ /\ built = NoCall
       /\ \E swap \in Swaps, multicaller \in Multicallers, env \in SplitEnvs :
              ToSwapSteps(swap, multicaller, env)

SpecSwap == InitP /\ [][NextS]_vars

(***************************************************************************)
(* Claims about to_swap_steps (SpecSwap).                                  *)
(***************************************************************************)
\* The last call lowered a BackrunSwapLine and returned two steps.
Lowered ==
    /\ built.call = "to_swap_steps"
    /\ built.swap.kind = "BackrunSwapLine"
    /\ built.ret.ret = "Some"

AllFlash(pools) == \A k \in 1 .. Len(pools) : pools[k].can_flash_swap

\* The indices at which the left or the right part of a line can flash-swap.
FlashIndices(swap_line) ==
    {i \in 1 .. Len(swap_line.pools) - 1 :
        \/ AllFlash(SubSeq(swap_line.pools, 1, i))
        \/ AllFlash(SubSeq(swap_line.pools, i + 1, Len(swap_line.pools)))}

\* The index a line is to be split at.
ExpectedIndex(swap_line) ==
    IF FlashIndices(swap_line) = {} THEN 1
    ELSE CHOOSE i \in FlashIndices(swap_line) :
             \A j \in FlashIndices(swap_line) : i <= j

StepLine(step) == step.swap_line_vec[1]

\* C21 (SpecSwap): to_swap_steps on BackrunSwapLine(L) splits L at the
\* smallest index i in [1, pool_count) at which the left or the right part can
\* flash-swap, and at index 1 when there is none; for pool_count >= 2 it
\* returns two steps that hold at least one pool each.
C21_SplitAtFirstFlashIndex ==
    /\ Lowered =>
           LET L == built.swap.swap_line
               i == ExpectedIndex(L)
           IN  /\ StepLine(built.ret.step_0).pools = SubSeq(L.pools, 1, i)
               /\ StepLine(built.ret.step_0).tokens = SubSeq(L.tokens, 1, i + 1)
               /\ StepLine(built.ret.step_1).pools = SubSeq(L.pools, i + 1, Len(L.pools))
               /\ StepLine(built.ret.step_1).tokens = SubSeq(L.tokens, i + 1, Len(L.tokens))
    /\ (/\ built.call = "to_swap_steps"
        /\ built.swap.kind = "BackrunSwapLine"
        /\ Len(built.swap.swap_line.pools) >= 2) =>
           /\ built.ret.ret = "Some"
           /\ Len(StepLine(built.ret.step_0).pools) >= 1
           /\ Len(StepLine(built.ret.step_1).pools) >= 1

\* A line of three pools that was split at 2, the only index with a part
\* able to flash-swap.
C21_Witness ==
    /\ Lowered
    /\ Len(built.swap.swap_line.pools) = 3
    /\ FlashIndices(built.swap.swap_line) = {2}
    /\ Len(StepLine(built.ret.step_0).pools) = 2

\* C22 (SpecSwap): for every BackrunSwapLine(L), whatever L.amount_in is, the
\* line of Step1 has amount_in = Balance(multicaller), and Step0 holds the
\* flash part as the split made it, its amount_in included.
C22_InsideAmountIsBalance ==
    Lowered =>
        LET L == built.swap.swap_line
            sp == split(L, Len(StepLine(built.ret.step_0).pools),
                        [built.env EXCEPT !.index_checked = FALSE])
        IN  /\ StepLine(built.ret.step_1).amount_in = Balance(built.multicaller)
            /\ StepLine(built.ret.step_1).amount_out = sp.inside_path.amount_out
            /\ StepLine(built.ret.step_0) = sp.flash_path
            /\ StepLine(built.ret.step_0).amount_in = L.amount_in
            /\ Len(built.ret.step_0.swap_line_vec) = 1
            /\ Len(built.ret.step_1.swap_line_vec) = 1

\* The line and the split both carried another amount_in than the balance of
\* the multicaller the call names.
C22_Witness ==
    /\ Lowered
    /\ built.multicaller = "M2"
    /\ built.swap.swap_line.amount_in = Balance(MULTICALLER)
    /\ built.env.inside_amount_in = Set(100)
    /\ StepLine(built.ret.step_1).amount_in = Balance("M2")

PoolAddresses(pools) == [k \in 1 .. Len(pools) |-> pools[k].address]

\* C23 (SpecSwap): for every BackrunSwapLine(L) of at least 2 pools, the pool
\* addresses of Step0 followed by those of Step1 are the pool addresses of L,
\* in order, none lost and none twice.
C23_StepsKeepPoolAddresses ==
    (Lowered /\ Len(built.swap.swap_line.pools) >= 2) =>
        PoolAddresses(StepLine(built.ret.step_0).pools)
            \o PoolAddresses(StepLine(built.ret.step_1).pools)
        = PoolAddresses(built.swap.swap_line.pools)

\* A line of three pools with three addresses was lowered.
C23_Witness ==
    /\ Lowered
    /\ PoolAddresses(built.swap.swap_line.pools) = <<"P2", "P1", "P3">>
    /\ PoolAddresses(StepLine(built.ret.step_0).pools) = <<"P2">>

(***************************************************************************)
(* Multicaller programs.  MulticallerCall, MulticallerCalls and the        *)
(* call-data helpers are declared outside the source files; an opcode is   *)
(* modelled from the specification (section 3) as a record, an optional    *)
(* field as a sequence of length 0 or 1, and call data as a record of the  *)
(* function called and its arguments.                                      *)
(***************************************************************************)
None == << >>

Some(x) == <<x>>

new_call(to, call_data) ==
    [call_type |-> "CALL", to |-> to, call_data |-> call_data, value |-> None,
     call_stack |-> None, return_stack |-> None]

new_call_with_value(to, call_data, value) ==
    [call_type |-> "CALL_WITH_VALUE", to |-> to, call_data |-> call_data,
     value |-> Some(value), call_stack |-> None, return_stack |-> None]

new_static_call(to, call_data) ==
    [call_type |-> "STATIC_CALL", to |-> to, call_data |-> call_data,
     value |-> None, call_stack |-> None, return_stack |-> None]

new_internal_call(call_data) ==
    [call_type |-> "INTERNAL_CALL", to |-> "", call_data |-> call_data,
     value |-> None, call_stack |-> None, return_stack |-> None]

new_calculation_call(call_data) ==
    [call_type |-> "CALCULATION_CALL", to |-> "", call_data |-> call_data,
     value |-> None, call_stack |-> None, return_stack |-> None]

set_call_stack(opcode, is_relative, stack_id, offset, len) ==
    [opcode EXCEPT !.call_stack =
        Some([is_relative |-> is_relative, stack_id |-> stack_id,
              offset |-> offset, len |-> len])]

set_return_stack(opcode, is_relative, stack_id, offset, len) ==
    [opcode EXCEPT !.return_stack =
        Some([is_relative |-> is_relative, stack_id |-> stack_id,
              offset |-> offset, len |-> len])]

\* AbiEncoderHelper: the call data of the ERC-20, WETH and multicaller calls.
encode_erc20_transfer(to, amount) == [fn |-> "transfer", to |-> to, amount |-> amount]

encode_erc20_balance_of(account) == [fn |-> "balanceOf", account |-> account]

encode_erc20_approve(spender, amount) ==
    [fn |-> "approve", spender |-> spender, amount |-> amount]

encode_weth_withdraw(amount) == [fn |-> "withdraw", amount |-> amount]

encode_weth_deposit == [fn |-> "deposit"]

encode_multicaller_uni2_get_out_amount(from, to, pool, amount, fee) ==
    [fn |-> "uni2GetOutAmount", from |-> from, to |-> to, pool |-> pool,
     amount |-> amount, fee |-> fee]

encode_multicaller_uni2_get_in_amount(from, to, pool, amount, fee) ==
    [fn |-> "uni2GetInAmount", from |-> from, to |-> to, pool |-> pool,
     amount |-> amount, fee |-> fee]

is_weth(address) == address = WETH

\* OpcodesEncoderV2::pack_do_calls_data: the bytes of a program, one to one.
pack_do_calls_data(opcodes) == [packed |-> opcodes]

(***************************************************************************)
(* The ABI encoder (ProtocolAbiSwapEncoderTrait) is a trait object; what   *)
(* it answers for a pool is part of the pool's record:                     *)
(*   preswap     preswap_requirement: Base, Callback or Transfer(address)  *)
(*   native      is_native                                                 *)
(*   in_offset   swap_in_amount_offset, None or Some(offset)               *)
(*   out_offset  swap_out_amount_offset, None or Some(offset)              *)
(*   encodable   whether encode_swap_*_amount_provided returns Ok          *)
(***************************************************************************)
Base == [type |-> "Base"]

Callback == [type |-> "Callback"]

Transfer(address) == [type |-> "Transfer", address |-> address]

preswap_requirement(pool) == pool.preswap

is_native(pool) == pool.native

swap_in_amount_offset(pool, from, to) == pool.in_offset

swap_out_amount_offset(pool, from, to) == pool.out_offset

abi_encode_swap_in_amount_provided(pool, from, to, amount, recipient, payload) ==
    IF pool.encodable
    THEN [result |-> "Ok",
          data |-> [fn |-> "swap_in_amount_provided", pool |-> pool.address,
                    from |-> from, to |-> to, amount |-> amount,
                    recipient |-> recipient, payload |-> payload]]
    ELSE [result |-> "Err", error |-> "ABI_ENCODER"]

abi_encode_swap_out_amount_provided(pool, from, to, amount, recipient, payload) ==
    IF pool.encodable
    THEN [result |-> "Ok",
          data |-> [fn |-> "swap_out_amount_provided", pool |-> pool.address,
                    from |-> from, to |-> to, amount |-> amount,
                    recipient |-> recipient, payload |-> payload]]
    ELSE [result |-> "Err", error |-> "ABI_ENCODER"]

(***************************************************************************)
(* CurveSwapOpcodesEncoder (pool_opcodes_encoder/curve.rs).  A call        *)
(* returns Ok with the opcodes it appended, an error, or panics.           *)
(***************************************************************************)
NEED_BALANCE_MAP ==
    {"0xD51a44d3FaE010294C616388b506AcdA1bfAAE46",
     "0xbEbc44782C7dB0a1A60Cb6fe97d0b483032FF1C7",
     "0xA5407eAE9Ba41422680e2e00537571bcC53efBfD"}

need_balance(address) == address \in NEED_BALANCE_MAP

EmptyBytes == << >>

Panic == [result |-> "panic"]

\* if !Self::need_balance(..) { swap_opcode.set_return_stack(true, 0, 0x0, 0x20) }
curve_return_stack(cur_pool, swap_opcode) ==
    IF ~need_balance(cur_pool.address)
    THEN set_return_stack(swap_opcode, TRUE, 0, 0, 32)
    ELSE swap_opcode

\* SwapAmountType::Set(amount) (curve.rs:52-95).
curve_set_amount(token_from_address, token_to_address, amount, cur_pool, multicaller, in_native) ==
    LET enc == abi_encode_swap_in_amount_provided(cur_pool, token_from_address,
                   token_to_address, amount, multicaller, EmptyBytes)
    IN  IF enc.result = "Err" THEN enc
        ELSE IF in_native
        THEN [result |-> "Ok", ops |->
                <<new_call(token_from_address, encode_weth_withdraw(amount)),
                  curve_return_stack(cur_pool,
                      new_call_with_value(cur_pool.address, enc.data, amount))>>]
        ELSE [result |-> "Ok", ops |->
                <<new_call(token_from_address,
                           encode_erc20_approve(cur_pool.address, amount)),
                  curve_return_stack(cur_pool,
                      new_call(cur_pool.address, enc.data))>>]

\* The amount is spliced from the stack: SwapAmountType::Stack0
\* (curve.rs:96-154, absolute slot 0), RelativeStack(stack_offset)
\* (curve.rs:155-213) and, after its balanceOf, Balance (curve.rs:219-276,
\* relative slot 0).  unwrap() of a missing offset panics.
curve_stack_amount(token_from_address, token_to_address, is_relative, stack_offset, cur_pool, multicaller, in_native) ==
    LET enc == abi_encode_swap_in_amount_provided(cur_pool, token_from_address,
                   token_to_address, 0, multicaller, EmptyBytes)
        offset == swap_in_amount_offset(cur_pool, token_from_address,
                                        token_to_address)
    IN  IF enc.result = "Err" THEN enc
        ELSE IF offset = None THEN Panic
        ELSE IF in_native
        THEN [result |-> "Ok", ops |->
                <<set_call_stack(new_call(token_from_address, encode_weth_withdraw(0)),
                                 is_relative, stack_offset, 4, 32),
                  curve_return_stack(cur_pool,
                      set_call_stack(new_call_with_value(cur_pool.address, enc.data, 0),
                                     is_relative, stack_offset, offset[1], 32))>>]
        ELSE [result |-> "Ok", ops |->
                <<set_call_stack(new_call(token_from_address,
                                          encode_erc20_approve(cur_pool.address, 0)),
                                 is_relative, stack_offset, 36, 32),
                  curve_return_stack(cur_pool,
                      set_call_stack(new_call(cur_pool.address, enc.data),
                                     is_relative, stack_offset, offset[1], 32))>>]

\* SwapAmountType::Balance(addr) (curve.rs:214-277).
curve_balance_amount(token_from_address, token_to_address, addr, cur_pool, multicaller, in_native) ==
    LET balance_opcode ==
            set_return_stack(new_static_call(token_from_address,
                                             encode_erc20_balance_of(addr)),
                             TRUE, 0, 0, 32)
        rest == curve_stack_amount(token_from_address, token_to_address, TRUE, 0,
                                   cur_pool, multicaller, in_native)
    IN  IF rest.result = "Ok"
        THEN [result |-> "Ok", ops |-> <<balance_opcode>> \o rest.ops]
        ELSE rest

\* match amount_in (curve.rs:51-281); any other amount type logs
\* "Curve amount not handled" and appends nothing.
curve_amount_opcodes(token_from_address, token_to_address, amount_in, cur_pool, multicaller, in_native) ==
    CASE amount_in.type = "Set" ->
             curve_set_amount(token_from_address, token_to_address,
                              amount_in.value, cur_pool, multicaller, in_native)
      [] amount_in.type = "Stack0" ->
             curve_stack_amount(token_from_address, token_to_address, FALSE, 0,
                                cur_pool, multicaller, in_native)
      [] amount_in.type = "RelativeStack" ->
             curve_stack_amount(token_from_address, token_to_address, TRUE,
                                amount_in.offset, cur_pool, multicaller, in_native)
      [] amount_in.type = "Balance" ->
             curve_balance_amount(token_from_address, token_to_address,
                                  amount_in.addr, cur_pool, multicaller, in_native)
      [] OTHER -> [result |-> "Ok", ops |-> << >>]

\* if out_native { weth deposit, value from the stack } (curve.rs:283-288).
curve_deposit(token_to_address, out_native) ==
    IF out_native
    THEN <<set_call_stack(new_call_with_value(token_to_address, encode_weth_deposit, 0),
                          TRUE, 0, 0, 0)>>
    ELSE << >>

\* A plausible slip: the balance is re-read for every pool.
curve_next_pool_always_balance(token_to_address, cur_pool, next_pool, multicaller) ==
    IF next_pool = None THEN << >>
    ELSE <<set_return_stack(new_static_call(token_to_address,
                                encode_erc20_balance_of(multicaller)),
                            TRUE, 0, 0, 32)>>
         \o (IF preswap_requirement(next_pool[1]).type = "Transfer"
             THEN <<set_call_stack(
                      new_call(token_to_address,
                               encode_erc20_transfer(
                                   preswap_requirement(next_pool[1]).address, 0)),
                      TRUE, 0, 36, 32)>>
             ELSE << >>)

\* if let Some(next_pool) = next_pool { .. } (curve.rs:290-304).
curve_next_pool(token_to_address, cur_pool, next_pool, multicaller) ==
    IF next_pool = None THEN << >>
    ELSE (IF need_balance(cur_pool.address)
          THEN <<set_return_stack(new_static_call(token_to_address,
                                      encode_erc20_balance_of(multicaller)),
                                  TRUE, 0, 0, 32)>>
          ELSE << >>)
         \o (IF preswap_requirement(next_pool[1]).type = "Transfer"
             THEN <<set_call_stack(
                      new_call(token_to_address,
                               encode_erc20_transfer(
                                   preswap_requirement(next_pool[1]).address, 0)),
                      TRUE, 0, 36, 32)>>
             ELSE << >>)

\* CurveSwapOpcodesEncoder::encode_swap_in_amount_provided (curve.rs:34-306):
\* Ok with swap_opcodes extended by the hop's opcodes, an error, or a panic.
curve_encode_swap_in_amount_provided(swap_opcodes, token_from_address, token_to_address, amount_in, cur_pool, next_pool, multicaller) ==
    LET in_native == IF is_native(cur_pool) THEN is_weth(token_from_address) ELSE FALSE
        out_native == IF is_native(cur_pool) THEN is_weth(token_to_address) ELSE FALSE
        hop == curve_amount_opcodes(token_from_address, token_to_address,
                                    amount_in, cur_pool, multicaller, in_native)
    IN  IF hop.result = "Ok"
        THEN [result |-> "Ok",
              ops |-> swap_opcodes \o hop.ops
                        \o curve_deposit(token_to_address, out_native)
                        \o curve_next_pool(token_to_address, cur_pool, next_pool,
                                           multicaller)]
        ELSE hop

(***************************************************************************)
(* SwapLineEncoder (swapline_encoder.rs).  opcodes_encoder is a trait      *)
(* object (:21); the encoder modelled here is constructed, with            *)
(* SwapLineEncoder::new (:25-45), over CurveSwapOpcodesEncoder, the        *)
(* implementation among the source files.  Besides the program, a result   *)
(* records the calls made to the opcodes encoder: the pool, the amount_in  *)
(* handed over, the local swap_to, and the place in the program where the  *)
(* hop's own opcodes start.                                                *)
(***************************************************************************)
\* A plausible slip: the Balance arm hands the line's amount_in on, and
\* leaves the balanceOf to the hop's encoder.
first_hop_amount_in_no_balance_of(swap_line, funds_from, token_from_address, cur_pool) ==
    LET req == preswap_requirement(cur_pool)
    IN  IF req.type = "Transfer" /\ req.address # funds_from
        THEN CASE swap_line.amount_in.type = "Set" ->
                      [ops |-> <<new_call(token_from_address,
                                     encode_erc20_transfer(req.address,
                                                           swap_line.amount_in.value))>>,
                       amount_in |-> swap_line.amount_in]
               [] OTHER ->
                      [ops |-> <<set_call_stack(
                                    new_call(token_from_address,
                                             encode_erc20_transfer(req.address, 0)),
                                    FALSE, 0, 36, 32)>>,
                       amount_in |-> swap_line.amount_in]
        ELSE [ops |-> << >>, amount_in |-> swap_line.amount_in]

\* let amount_in = if i == 0 { .. } (swapline_encoder.rs:487-535): the
\* opcodes put before the first hop, and the amount_in the hop is encoded with.
first_hop_amount_in(swap_line, funds_from, token_from_address, cur_pool) ==
    LET req == preswap_requirement(cur_pool)
    IN  IF req.type = "Transfer" /\ req.address # funds_from
        THEN CASE swap_line.amount_in.type = "Set" ->
                      [ops |-> <<new_call(token_from_address,
                                     encode_erc20_transfer(req.address,
                                                           swap_line.amount_in.value))>>,
                       amount_in |-> swap_line.amount_in]
               [] swap_line.amount_in.type = "Balance" ->
                      [ops |-> <<set_return_stack(
                                    new_static_call(token_from_address,
                                        encode_erc20_balance_of(swap_line.amount_in.addr)),
                                    TRUE, 0, 0, 32),
                                 set_call_stack(
                                    new_call(token_from_address,
                                             encode_erc20_transfer(req.address, 0)),
                                    TRUE, 0, 36, 32)>>,
                       amount_in |-> RelativeStack(0)]
               [] OTHER ->
                      [ops |-> <<set_call_stack(
                                    new_call(token_from_address,
                                             encode_erc20_transfer(req.address, 0)),
                                    FALSE, 0, 36, 32)>>,
                       amount_in |-> swap_line.amount_in]
        ELSE [ops |-> << >>, amount_in |-> swap_line.amount_in]

\* A plausible slip: every hop is encoded with the line's amount_in.
hop_amount_in_line(swap_line, i, funds_from) ==
    first_hop_amount_in(swap_line, funds_from, swap_line.tokens[1], swap_line.pools[1])

\* let amount_in = .. (swapline_encoder.rs:487-538), for the hop at i (from 1).
hop_amount_in(swap_line, i, funds_from) ==
    IF i = 1
    THEN first_hop_amount_in(swap_line, funds_from, swap_line.tokens[1],
                             swap_line.pools[1])
    ELSE [ops |-> << >>, amount_in |-> RelativeStack(0)]

\* let swap_to = .. (swapline_encoder.rs:540-547).
hop_swap_to(next_pool, funds_to, multicaller) ==
    IF next_pool # None
    THEN IF preswap_requirement(next_pool[1]).type = "Transfer"
         THEN preswap_requirement(next_pool[1]).address
         ELSE multicaller
    ELSE funds_to

\* The loop of encode_swap_line_in_amount from hop i on
\* (swapline_encoder.rs:472-628); an error of the opcodes encoder returns.
RECURSIVE encode_hops(_, _, _, _, _, _, _)
encode_hops(swap_line, funds_from, funds_to, multicaller, i, swap_opcodes, calls) ==
    IF i > Len(swap_line.pools)
    THEN [result |-> "Ok", ops |-> swap_opcodes, calls |-> calls]
    ELSE LET token_from_address == swap_line.tokens[i]
             token_to_address == swap_line.tokens[i + 1]
             cur_pool == swap_line.pools[i]
             next_pool == IF i < Len(swap_line.pools)
                          THEN Some(swap_line.pools[i + 1]) ELSE None
             first == hop_amount_in(swap_line, i, funds_from)
             swap_to == hop_swap_to(next_pool, funds_to, multicaller)
             before == swap_opcodes \o first.ops
             hop == curve_encode_swap_in_amount_provided(before,
                        token_from_address, token_to_address, first.amount_in,
                        cur_pool, next_pool, multicaller)
             called == Append(calls, [pool |-> cur_pool.address,
                                      amount_in |-> first.amount_in,
                                      swap_to |-> swap_to,
                                      start |-> Len(before) + 1])
         IN  IF hop.result = "Ok"
             THEN encode_hops(swap_line, funds_from, funds_to, multicaller,
                              i + 1, hop.ops, called)
             ELSE [result |-> hop.result, calls |-> called]

\* SwapLineEncoder::encode_swap_line_in_amount (swapline_encoder.rs:464-630).
encode_swap_line_in_amount(swap_line, funds_from, funds_to, multicaller) ==
    encode_hops(swap_line, funds_from, funds_to, multicaller, 1, << >>, << >>)

(***************************************************************************)
(* The flash encoders.  MulticallerCalls::add appends an opcode and        *)
(* insert puts it in front (specification, section 4.6: "prepends to the   *)
(* inside body").  Pools are visited by their position k in the line, from *)
(* 1; the source's pool_idx is n - k in the reversed traversal.            *)
(***************************************************************************)
V3Like == {"UniswapV3", "Maverick", "PancakeV3"}

\* The arms of match flash_pool.get_class() (swapline_encoder.rs:111-171,
\* :178-277, :310-361, :368-454).
flash_class(class) ==
    IF class = "UniswapV2" THEN "V2"
    ELSE IF class \in V3Like THEN "V3"
    ELSE "unsupported"

unwrap_or_zero(amount) == IF amount.type = "Set" THEN amount.value ELSE 0

\* let swap_to = match prev_pool { .. } (swapline_encoder.rs:77-109): the
\* recipient, and the transfer a UniswapV2 pool puts in front of the inside
\* opcodes.
flash_in_swap_to(flash_pool, prev_pool, token_to_address, funds_to, multicaller) ==
    IF prev_pool = None THEN [swap_to |-> funds_to, front |-> << >>]
    ELSE LET req == preswap_requirement(prev_pool[1])
         IN  IF req.type # "Transfer"
             THEN [swap_to |-> multicaller, front |-> << >>]
             ELSE IF flash_pool.class = "UniswapV2"
             THEN [swap_to |-> req.address,
                   front |-> <<set_call_stack(
                                  new_call(token_to_address,
                                           encode_erc20_transfer(req.address, 0)),
                                  FALSE, 0, 36, 32)>>]
             ELSE [swap_to |-> req.address, front |-> << >>]

\* A plausible slip: the pool visited first, the last of the line, takes the
\* line's amount_in.
flash_in_amount_of_last(swap_line, k) ==
    IF k = Len(swap_line.pools) THEN swap_line.amount_in ELSE Stack0

\* let amount_in = if pool_idx == swap_path.pools().len() - 1 { .. }
\* (swapline_encoder.rs:75): the first pool of the line, visited last, takes
\* the line's amount_in.
flash_in_amount(swap_line, k) ==
    IF k = 1 THEN swap_line.amount_in ELSE Stack0

\* The opcodes the first match adds to the inside opcodes
\* (swapline_encoder.rs:111-167), for a supported class.
flash_in_inside(flash_pool, is_last, token_from_address, token_to_address, amount_in, inside_opcodes, funds_to, multicaller) ==
    IF flash_class(flash_pool.class) = "V2"
    THEN LET repaid == IF amount_in.type = "Set"
                       THEN Append(inside_opcodes,
                                new_call(token_from_address,
                                    encode_erc20_transfer(flash_pool.address,
                                                          amount_in.value)))
                       ELSE inside_opcodes
         IN  IF is_last /\ funds_to # multicaller
             THEN <<set_call_stack(
                      new_call(token_to_address, encode_erc20_transfer(funds_to, 0)),
                      FALSE, 0, 36, 32)>> \o repaid
             ELSE repaid
    ELSE Append(inside_opcodes,
                IF amount_in.type = "Set"
                THEN new_call(token_from_address,
                              encode_erc20_transfer(flash_pool.address, amount_in.value))
                ELSE set_call_stack(
                         new_call(token_from_address,
                                  encode_erc20_transfer(flash_pool.address, 0)),
                         FALSE, 1, 36, 32))

\* The outer opcodes of a UniswapV2 flash pool (swapline_encoder.rs:179-227).
flash_in_outer_v2(flash_pool, token_from_address, token_to_address, amount_in, inside_call_bytes, multicaller) ==
    LET get_out_amount_opcode ==
            IF amount_in.type = "Set"
            THEN new_internal_call(encode_multicaller_uni2_get_out_amount(
                     token_from_address, token_to_address, flash_pool.address,
                     amount_in.value, flash_pool.fee))
            ELSE set_call_stack(
                     new_internal_call(encode_multicaller_uni2_get_out_amount(
                         token_from_address, token_to_address, flash_pool.address,
                         0, flash_pool.fee)),
                     FALSE, 0, 36, 32)
        enc == abi_encode_swap_out_amount_provided(flash_pool, token_from_address,
                   token_to_address, 0, multicaller, inside_call_bytes)
        offset == swap_out_amount_offset(flash_pool, token_from_address,
                                         token_to_address)
    IN  IF enc.result = "Err" THEN enc
        ELSE IF offset = None THEN Panic
        ELSE [result |-> "Ok", ops |->
                <<get_out_amount_opcode,
                  set_call_stack(new_call(flash_pool.address, enc.data),
                                 TRUE, 0, offset[1], 32)>>]

\* The outer opcode of a UniswapV3-like flash pool (swapline_encoder.rs:228-273).
flash_in_outer_v3(flash_pool, token_from_address, token_to_address, amount_in, swap_to, inside_call_bytes) ==
    LET enc == abi_encode_swap_in_amount_provided(flash_pool, token_from_address,
                   token_to_address, unwrap_or_zero(amount_in), swap_to,
                   inside_call_bytes)
        offset == swap_in_amount_offset(flash_pool, token_from_address,
                                        token_to_address)
    IN  IF enc.result = "Err" THEN enc
        ELSE IF amount_in.type = "Set"
        THEN [result |-> "Ok", ops |-> <<new_call(flash_pool.address, enc.data)>>]
        ELSE IF offset = None THEN [result |-> "Err", error |-> "NO_OFFSET"]
        ELSE [result |-> "Ok", ops |->
                <<set_call_stack(new_call(flash_pool.address, enc.data),
                                 FALSE, 0, offset[1], 32)>>]

\* The loop of encode_flash_swap_line_in_amount at the pool at position k
\* (swapline_encoder.rs:71-278), the pools after k done.
RECURSIVE flash_in_pools(_, _, _, _, _, _, _)
flash_in_pools(swap_line, k, flash_swap_opcodes, inside_opcodes, prev_pool, funds_to, multicaller) ==
    IF k < 1 THEN [result |-> "Ok", ops |-> flash_swap_opcodes]
    ELSE LET flash_pool == swap_line.pools[k]
             token_from_address == swap_line.tokens[k]
             token_to_address == swap_line.tokens[k + 1]
             amount_in == flash_in_amount(swap_line, k)
             to == flash_in_swap_to(flash_pool, prev_pool, token_to_address,
                                    funds_to, multicaller)
             inside == flash_in_inside(flash_pool, k = Len(swap_line.pools),
                           token_from_address, token_to_address, amount_in,
                           to.front \o inside_opcodes, funds_to, multicaller)
             inside_call_bytes == pack_do_calls_data(inside)
             outer == IF flash_class(flash_pool.class) = "V2"
                      THEN flash_in_outer_v2(flash_pool, token_from_address,
                               token_to_address, amount_in, inside_call_bytes,
                               multicaller)
                      ELSE flash_in_outer_v3(flash_pool, token_from_address,
                               token_to_address, amount_in, to.swap_to,
                               inside_call_bytes)
         IN  IF flash_class(flash_pool.class) = "unsupported"
             THEN [result |-> "Err", error |-> "CANNOT_ENCODE_FLASH_CALL"]
             ELSE IF outer.result # "Ok" THEN outer
             ELSE flash_in_pools(swap_line, k - 1, outer.ops, outer.ops,
                                 Some(flash_pool), funds_to, multicaller)

\* SwapLineEncoder::encode_flash_swap_line_in_amount (swapline_encoder.rs:54-281).
encode_flash_swap_line_in_amount(swap_line, inside_swap_opcodes, funds_to, multicaller) ==
    flash_in_pools(swap_line, Len(swap_line.pools), << >>, inside_swap_opcodes,
                   None, funds_to, multicaller)

\* The opcodes the first match of encode_flash_swap_line_out_amount adds to
\* the inside opcodes (swapline_encoder.rs:310-356), for a supported class.
flash_out_inside(flash_pool, is_first, token_from_address, token_to_address, amount_out, inside_opcodes, swap_to, multicaller) ==
    LET pay_pool == set_call_stack(
                        new_call(token_from_address,
                                 encode_erc20_transfer(flash_pool.address, 0)),
                        FALSE, 1, 36, 32)
    IN  IF flash_class(flash_pool.class) = "V2"
        THEN LET get_in_amount_opcode ==
                     new_internal_call(encode_multicaller_uni2_get_in_amount(
                         token_from_address, token_to_address, flash_pool.address,
                         unwrap_or_zero(amount_out), flash_pool.fee))
             IN  <<IF amount_out.type = "Set" THEN get_in_amount_opcode
                   ELSE set_call_stack(get_in_amount_opcode, FALSE, 0, 36, 32)>>
                 \o inside_opcodes
                 \o (IF is_first /\ swap_to # flash_pool.address
                     THEN <<pay_pool>> ELSE << >>)
                 \o (IF swap_to # multicaller
                     THEN <<set_call_stack(
                              new_call(token_to_address,
                                       encode_erc20_transfer(swap_to, 0)),
                              FALSE, 0, 36, 32)>>
                     ELSE << >>)
        ELSE inside_opcodes \o (IF is_first THEN <<pay_pool>> ELSE << >>)

\* The outer opcodes of a pool (swapline_encoder.rs:368-450), for a
\* supported class.
flash_out_outer(flash_pool, token_from_address, token_to_address, amount_out, swap_to, inside_call_bytes, multicaller) ==
    LET enc == abi_encode_swap_out_amount_provided(flash_pool, token_from_address,
                   token_to_address, unwrap_or_zero(amount_out),
                   IF flash_class(flash_pool.class) = "V2" THEN multicaller
                   ELSE swap_to,
                   inside_call_bytes)
        offset == swap_out_amount_offset(flash_pool, token_from_address,
                                         token_to_address)
    IN  IF enc.result = "Err" THEN enc
        ELSE IF amount_out.type = "Set"
        THEN [result |-> "Ok", ops |-> <<new_call(flash_pool.address, enc.data)>>]
        ELSE IF offset = None THEN Panic
        ELSE [result |-> "Ok", ops |->
                (IF flash_class(flash_pool.class) = "V2" THEN << >>
                 ELSE <<new_calculation_call(<<8, 42, 0>>)>>)
                \o <<set_call_stack(new_call(flash_pool.address, enc.data),
                                    TRUE, 0, offset[1], 32)>>]

\* The loop of encode_flash_swap_line_out_amount at the pool at position k
\* (swapline_encoder.rs:297-455), the pools before k done.
RECURSIVE flash_out_pools(_, _, _, _, _)
flash_out_pools(swap_line, k, flash_swap_opcodes, inside_opcodes, multicaller) ==
    IF k > Len(swap_line.pools) THEN [result |-> "Ok", ops |-> flash_swap_opcodes]
    ELSE LET flash_pool == swap_line.pools[k]
             token_from_address == swap_line.tokens[k]
             token_to_address == swap_line.tokens[k + 1]
             amount_out == IF k = Len(swap_line.pools)
                           THEN swap_line.amount_out ELSE Stack0
             swap_to == IF k < Len(swap_line.pools)
                        THEN swap_line.pools[k + 1].address ELSE multicaller
             inside == flash_out_inside(flash_pool, k = 1, token_from_address,
                           token_to_address, amount_out, inside_opcodes, swap_to,
                           multicaller)
             outer == flash_out_outer(flash_pool, token_from_address,
                          token_to_address, amount_out, swap_to,
                          pack_do_calls_data(inside), multicaller)
         IN  IF flash_class(flash_pool.class) = "unsupported"
             THEN [result |-> "Err", error |-> "CANNOT_ENCODE_FLASH_CALL"]
             ELSE IF outer.result # "Ok" THEN outer
             ELSE flash_out_pools(swap_line, k + 1, outer.ops, outer.ops,
                                  multicaller)

\* SwapLineEncoder::encode_flash_swap_line_out_amount
\* (swapline_encoder.rs:283-458).
encode_flash_swap_line_out_amount(swap_line, inside_swap_opcodes, multicaller) ==
    flash_out_pools(swap_line, 1, << >>, inside_swap_opcodes, multicaller)

(***************************************************************************)
(* SpecEncoder: the three encoders of SwapLineEncoder called on lines of   *)
(* up to MaxEncPools pools.  The pools differ in what the Pool and the ABI *)
(* encoder report for them.                                                *)
(***************************************************************************)
MaxEncPools == 3

EncPool(address, class, preswap, native, in_offset, out_offset, encodable) ==
    [address |-> address, class |-> class, can_flash_swap |-> FALSE,
     preswap |-> preswap, native |-> native, in_offset |-> in_offset,
     out_offset |-> out_offset, encodable |-> encodable, fee |-> 30]

ALLOWLISTED == "0xbEbc44782C7dB0a1A60Cb6fe97d0b483032FF1C7"

\* Curve pools: allowlisted or not, native or not, with and without a
\* transfer requirement; one without an offset, one the ABI encoder fails on,
\* one with a callback requirement.
CurvePools ==
    {EncPool("CRV", "Curve", Base, FALSE, Some(68), None, TRUE),
     EncPool(ALLOWLISTED, "Curve", Transfer("NEXT"), FALSE, Some(68), None, TRUE),
     EncPool("CRV", "Curve", Transfer("NEXT"), TRUE, Some(68), None, TRUE),
     EncPool(ALLOWLISTED, "Curve", Base, TRUE, Some(68), None, TRUE),
     EncPool("CRV", "Curve", Base, FALSE, None, None, TRUE),
     EncPool("CRV", "Curve", Base, FALSE, Some(68), None, FALSE),
     EncPool("CRV", "Curve", Callback, FALSE, Some(68), None, TRUE)}

\* Pools of the classes the flash encoders know, and one of another class.
FlashLinePools ==
    {EncPool("UNI2", "UniswapV2", Transfer("UNI2"), FALSE, None, Some(4), TRUE),
     EncPool("UNI2", "UniswapV2", Transfer("UNI2"), FALSE, None, None, TRUE),
     EncPool("UNI3", "UniswapV3", Callback, FALSE, Some(36), Some(36), TRUE),
     EncPool("UNI3", "UniswapV3", Callback, FALSE, None, None, TRUE),
     EncPool("MAV", "Maverick", Callback, FALSE, Some(36), Some(36), TRUE),
     EncPool("CAKE", "PancakeV3", Callback, FALSE, Some(36), Some(36), TRUE),
     EncPool("CRV", "Curve", Base, FALSE, Some(68), None, TRUE)}

EncAmounts == {Set(100), Stack0, RelativeStack(1), Balance("EOA"), NotSet}

FlashAmounts == {Set(100), Stack0, NotSet}

EncLines(pools, amounts) ==
    UNION {{SwapLine(LineTokens(n), ps, a, a) : ps \in [1 .. n -> pools], a \in amounts}
           : n \in 1 .. MaxEncPools}

InsideOpcodes ==
    {<< >>, <<new_call("T1", encode_erc20_transfer("EOA", 1))>>}

EncodeSwapLineInAmount(swap_line, funds_from, funds_to) ==
    /\ built' = [call |-> "encode_swap_line_in_amount", swap_line |-> swap_line,
                 funds_from |-> funds_from, funds_to |-> funds_to,
                 ret |-> encode_swap_line_in_amount(swap_line, funds_from,
                                                    funds_to, MULTICALLER)]
    /\ UNCHANGED << market, result >>
    /\ UNCHANGED path_frame

EncodeFlashSwapLineInAmount(swap_line, inside_swap_opcodes, funds_to) ==
    /\ built' = [call |-> "encode_flash_swap_line_in_amount",
                 swap_line |-> swap_line, inside |-> inside_swap_opcodes,
                 funds_to |-> funds_to,
                 ret |-> encode_flash_swap_line_in_amount(swap_line,
                             inside_swap_opcodes, funds_to, MULTICALLER)]
    /\ UNCHANGED << market, result >>
    /\ UNCHANGED path_frame

EncodeFlashSwapLineOutAmount(swap_line, inside_swap_opcodes) ==
    /\ built' = [call |-> "encode_flash_swap_line_out_amount",
                 swap_line |-> swap_line, inside |-> inside_swap_opcodes,
                 ret |-> encode_flash_swap_line_out_amount(swap_line,
                             inside_swap_opcodes, MULTICALLER)]
    /\ UNCHANGED << market, result >>
    /\ UNCHANGED path_frame

NextE ==
    \/ PDrop
    \/ /\ built = NoCall
       /\ \E swap_line \in EncLines(CurvePools, EncAmounts),
             funds_from \in {MULTICALLER, "NEXT"},
             funds_to \in {MULTICALLER, "EOA"} :
              EncodeSwapLineInAmount(swap_line, funds_from, funds_to)
    \/ /\ built = NoCall
       /\ \E swap_line \in EncLines(FlashLinePools, FlashAmounts),
             inside \in InsideOpcodes, funds_to \in {MULTICALLER, "EOA"} :
              EncodeFlashSwapLineInAmount(swap_line, inside, funds_to)
    \/ /\ built = NoCall
       /\ \E swap_line \in EncLines(FlashLinePools, FlashAmounts),
             inside \in InsideOpcodes :
              EncodeFlashSwapLineOutAmount(swap_line, inside)

SpecEncoder == InitP /\ [][NextE]_vars

(***************************************************************************)
(* Claims about the encoders (SpecEncoder).                                *)
(***************************************************************************)
\* The last call was encode_swap_line_in_amount.
InAmountCall == built.call = "encode_swap_line_in_amount"

InAmountOk == InAmountCall /\ built.ret.result = "Ok"

\* The first pool wants its funds at an address that is not funds_from.
FirstPoolTransfer ==
    /\ built.swap_line.pools[1].preswap.type = "Transfer"
    /\ built.swap_line.pools[1].preswap.address # built.funds_from

\* The hops are encoded in path order, one call per pool, none skipped.
HopsInOrder ==
    /\ Len(built.ret.calls) <= Len(built.swap_line.pools)
    /\ built.ret.result = "Ok" => Len(built.ret.calls) = Len(built.swap_line.pools)
    /\ \A i \in 1 .. Len(built.ret.calls) :
           /\ built.ret.calls[i].pool = built.swap_line.pools[i].address
           /\ i > 1 => built.ret.calls[i].start >= built.ret.calls[i - 1].start

\* C24 as stated (SpecEncoder): encode_swap_line_in_amount encodes the hops
\* in path order, the first hop with the line's own amount_in and every later
\* hop with RelativeStack(0), for every amount type of the line and every
\* preswap requirement of the first pool.
C24_FirstHopLineAmount ==
    InAmountCall =>
        /\ HopsInOrder
        /\ \A i \in 1 .. Len(built.ret.calls) :
               built.ret.calls[i].amount_in =
                   IF i = 1 THEN built.swap_line.amount_in ELSE RelativeStack(0)

\* C24 as amended (SpecEncoder): the hops are encoded in path order; the first
\* hop is encoded with the line's own amount_in, except that it is encoded
\* with RelativeStack(0) when the line's amount_in is Balance(a) and the first
\* pool requires Transfer(addr) with addr different from funds_from; every
\* later hop is encoded with RelativeStack(0).
C24_FirstHopResolvedAmount ==
    InAmountCall =>
        /\ HopsInOrder
        /\ \A i \in 1 .. Len(built.ret.calls) :
               built.ret.calls[i].amount_in =
                   IF i = 1 /\ ~(FirstPoolTransfer
                                 /\ built.swap_line.amount_in.type = "Balance")
                   THEN built.swap_line.amount_in
                   ELSE RelativeStack(0)

\* A line of three pools was encoded, its amount_in a balance and its first
\* pool wanting a transfer: all three hops were encoded with RelativeStack(0).
C24_Witness ==
    /\ InAmountOk
    /\ Len(built.swap_line.pools) = 3
    /\ FirstPoolTransfer
    /\ built.swap_line.amount_in = Balance("EOA")
    /\ \A i \in 1 .. 3 : built.ret.calls[i].amount_in = RelativeStack(0)

\* The opcodes of a program that belong to hop i: from the place where the
\* hop's encoder started to the place where the next hop's started.
HopSegment(ret, i) ==
    SubSeq(ret.ops, ret.calls[i].start,
           IF i < Len(ret.calls) THEN ret.calls[i + 1].start - 1 ELSE Len(ret.ops))

IsSwapCall(opcode, pool_address) ==
    /\ opcode.to = pool_address
    /\ opcode.call_data.fn = "swap_in_amount_provided"

IsTransferTo(opcode, address) ==
    /\ opcode.call_data.fn = "transfer"
    /\ opcode.call_data.to = address

\* The opcodes of a segment direct the hop's output to an address: the swap
\* names it as recipient, or a transfer to it follows the swap.
DirectedTo(segment, pool_address, address) ==
    \E j \in 1 .. Len(segment) :
        /\ IsSwapCall(segment[j], pool_address)
        /\ \/ segment[j].call_data.recipient = address
           \/ \E t \in j + 1 .. Len(segment) : IsTransferTo(segment[t], address)

\* Where an intermediate hop is to send its output.
NextPoolAddress(next_pool) ==
    IF next_pool.preswap.type = "Transfer" THEN next_pool.preswap.address
    ELSE MULTICALLER

\* C25 (SpecEncoder): in the program of encode_swap_line_in_amount the output
\* of the last hop is directed to funds_to, the output of every intermediate
\* hop to the next pool's Transfer address when the next pool requires a
\* transfer and to the multicaller otherwise; and a call that differs only in
\* funds_to gives a program that differs.
C25_LastHopToFundsTo ==
    (InAmountOk /\ built.swap_line.amount_in.type # "NotSet") =>
        LET n == Len(built.swap_line.pools)
        IN  /\ DirectedTo(HopSegment(built.ret, n),
                          built.swap_line.pools[n].address, built.funds_to)
            /\ \A i \in 1 .. n - 1 :
                   DirectedTo(HopSegment(built.ret, i),
                              built.swap_line.pools[i].address,
                              NextPoolAddress(built.swap_line.pools[i + 1]))
            /\ \A other \in {MULTICALLER, "EOA"} \ {built.funds_to} :
                   encode_swap_line_in_amount(built.swap_line, built.funds_from,
                                              other, MULTICALLER).ops
                   # built.ret.ops

\* The part of C25 the code keeps: every hop's swap names the multicaller as
\* recipient, and an intermediate hop whose next pool requires a transfer is
\* followed by a transfer to that address.
C25_HopsToMulticallerOrNextPool ==
    (InAmountOk /\ built.swap_line.amount_in.type # "NotSet") =>
        \A i \in 1 .. Len(built.swap_line.pools) :
            /\ DirectedTo(HopSegment(built.ret, i),
                          built.swap_line.pools[i].address, MULTICALLER)
            /\ i < Len(built.swap_line.pools) =>
                   DirectedTo(HopSegment(built.ret, i),
                              built.swap_line.pools[i].address,
                              NextPoolAddress(built.swap_line.pools[i + 1]))

\* C26 (SpecEncoder): encoding is all-or-nothing per line:
\* encode_swap_line_in_amount returns an error and no opcodes, or a program
\* that holds, for every hop of the line in order, a swap call to the hop's
\* pool; a hop whose amount type the pool's encoder cannot handle (NotSet)
\* gives an error, never a program without that hop's swap.
C26_AllOrNothing ==
    /\ InAmountOk =>
           \A i \in 1 .. Len(built.swap_line.pools) :
               \E j \in 1 .. Len(HopSegment(built.ret, i)) :
                   IsSwapCall(HopSegment(built.ret, i)[j],
                              built.swap_line.pools[i].address)
    /\ (InAmountCall /\ built.ret.result # "Ok") => "ops" \notin DOMAIN built.ret

\* The part of C26 the code keeps: a program is returned only when every hop
\* was encoded, and each hop whose amount type has an arm holds its swap call.
C26_HandledHopsHaveSwap ==
    InAmountOk =>
        /\ Len(built.ret.calls) = Len(built.swap_line.pools)
        /\ \A i \in 1 .. Len(built.swap_line.pools) :
               built.ret.calls[i].amount_in.type # "NotSet" =>
                   \E j \in 1 .. Len(HopSegment(built.ret, i)) :
                       IsSwapCall(HopSegment(built.ret, i)[j],
                                  built.swap_line.pools[i].address)

FlashInCall == built.call = "encode_flash_swap_line_in_amount"

FlashOutCall == built.call = "encode_flash_swap_line_out_amount"

Spliced(amount) == amount.type \in {"Stack0", "RelativeStack", "Balance"}

\* The amount type each pool of the line is encoded with.
InAmountOf(i) ==
    IF i = 1 /\ ~(FirstPoolTransfer /\ built.swap_line.amount_in.type = "Balance")
    THEN built.swap_line.amount_in
    ELSE RelativeStack(0)

FlashInAmountOf(k) == IF k = 1 THEN built.swap_line.amount_in ELSE Stack0

FlashOutAmountOf(k) ==
    IF k = Len(built.swap_line.pools) THEN built.swap_line.amount_out ELSE Stack0

\* A hop of the last call has its amount spliced from the stack, and the ABI
\* encoder has no offset for it.
OffsetMissing ==
    \/ /\ InAmountCall
       /\ \E i \in 1 .. Len(built.swap_line.pools) :
              /\ Spliced(InAmountOf(i))
              /\ built.swap_line.pools[i].in_offset = None
    \/ /\ FlashInCall
       /\ \E k \in 1 .. Len(built.swap_line.pools) :
              /\ FlashInAmountOf(k).type # "Set"
              /\ \/ /\ built.swap_line.pools[k].class = "UniswapV2"
                    /\ built.swap_line.pools[k].out_offset = None
                 \/ /\ built.swap_line.pools[k].class \in V3Like
                    /\ built.swap_line.pools[k].in_offset = None
    \/ /\ FlashOutCall
       /\ \E k \in 1 .. Len(built.swap_line.pools) :
              /\ FlashOutAmountOf(k).type # "Set"
              /\ built.swap_line.pools[k].class \in V3Like \cup {"UniswapV2"}
              /\ built.swap_line.pools[k].out_offset = None

\* C27 (SpecEncoder): whenever a hop's amount is spliced from the stack
\* (Stack0, RelativeStack or Balance in the Curve encoder, any amount but Set
\* in the flash encoders) and the ABI encoder has no offset for the hop, the
\* encoding returns an error value: it neither aborts nor returns a program.
C27_MissingOffsetIsError ==
    OffsetMissing => built.ret.result = "Err"

\* The part of C27 the code keeps: no program is returned, and
\* encode_flash_swap_line_in_amount returns an error for a line of
\* UniswapV3-like pools.
C27_MissingOffsetNoProgram ==
    /\ OffsetMissing => built.ret.result # "Ok"
    /\ (/\ OffsetMissing
        /\ FlashInCall
        /\ \A k \in 1 .. Len(built.swap_line.pools) :
               built.swap_line.pools[k].class \in V3Like) =>
           built.ret.result = "Err"

\* A pool of a class the flash encoders do not know stands in the line.
UnsupportedInLine ==
    /\ FlashInCall \/ FlashOutCall
    /\ \E k \in 1 .. Len(built.swap_line.pools) :
           built.swap_line.pools[k].class \notin V3Like \cup {"UniswapV2"}

\* C28 (SpecEncoder): the flash encoders return an error, and no program,
\* whenever the line holds a pool whose class is not UniswapV2, UniswapV3,
\* Maverick or PancakeV3, wherever in the line the pool stands.
C28_UnsupportedClassIsError ==
    UnsupportedInLine => built.ret.result = "Err"

\* The part of C28 the code keeps: no program is returned, and an error is
\* returned when every offset the ABI encoder is asked for is there.
C28_UnsupportedClassNoProgram ==
    /\ UnsupportedInLine => built.ret.result # "Ok"
    /\ (/\ UnsupportedInLine
        /\ \A k \in 1 .. Len(built.swap_line.pools) :
               built.swap_line.pools[k].class \in V3Like \cup {"UniswapV2"} =>
                   built.swap_line.pools[k].out_offset # None) =>
           built.ret.result = "Err"

\* The opcodes that precede the first hop's own opcodes.
Preamble == SubSeq(built.ret.ops, 1, built.ret.calls[1].start - 1)

\* The opcodes the first hop's encoder emits when called on an empty program.
FirstHopOwn ==
    curve_encode_swap_in_amount_provided(<< >>, built.swap_line.tokens[1],
        built.swap_line.tokens[2], built.ret.calls[1].amount_in,
        built.swap_line.pools[1],
        IF Len(built.swap_line.pools) > 1 THEN Some(built.swap_line.pools[2])
        ELSE None,
        MULTICALLER).ops

HasCallStackAt(opcode, offset) ==
    /\ Len(opcode.call_stack) = 1
    /\ opcode.call_stack[1].offset = offset

\* C29 (SpecEncoder): in encode_swap_line_in_amount, when the first pool
\* requires Transfer(addr) with addr different from funds_from, the program
\* starts with: for Set(v), one transfer(addr, v) without stack binding; for
\* Balance(a), a static call balanceOf(a) with a return-stack binding and then
\* transfer(addr, 0) with a call-stack binding at data offset 0x24; for any
\* other amount type, one transfer(addr, 0) with a call-stack binding at 0x24.
\* Otherwise nothing precedes the first hop's own opcodes.
C29_FirstHopPreamble ==
    InAmountOk =>
        LET amount == built.swap_line.amount_in
            addr == built.swap_line.pools[1].preswap.address
            token == built.swap_line.tokens[1]
        IN  /\ SubSeq(built.ret.ops, Len(Preamble) + 1,
                      Len(Preamble) + Len(FirstHopOwn)) = FirstHopOwn
            /\ ~FirstPoolTransfer => Preamble = << >>
            /\ (FirstPoolTransfer /\ amount.type = "Set") =>
                   /\ Len(Preamble) = 1
                   /\ Preamble[1].call_type = "CALL"
                   /\ Preamble[1].to = token
                   /\ Preamble[1].call_data = encode_erc20_transfer(addr, amount.value)
                   /\ Preamble[1].call_stack = None
                   /\ Preamble[1].return_stack = None
            /\ (FirstPoolTransfer /\ amount.type = "Balance") =>
                   /\ Len(Preamble) = 2
                   /\ Preamble[1].call_type = "STATIC_CALL"
                   /\ Preamble[1].to = token
                   /\ Preamble[1].call_data = encode_erc20_balance_of(amount.addr)
                   /\ Len(Preamble[1].return_stack) = 1
                   /\ Preamble[1].call_stack = None
                   /\ Preamble[2].call_type = "CALL"
                   /\ Preamble[2].to = token
                   /\ Preamble[2].call_data = encode_erc20_transfer(addr, 0)
                   /\ HasCallStackAt(Preamble[2], 36)
            /\ (FirstPoolTransfer /\ amount.type \notin {"Set", "Balance"}) =>
                   /\ Len(Preamble) = 1
                   /\ Preamble[1].call_type = "CALL"
                   /\ Preamble[1].to = token
                   /\ Preamble[1].call_data = encode_erc20_transfer(addr, 0)
                   /\ HasCallStackAt(Preamble[1], 36)

\* A line whose amount_in is a balance and whose first pool wants a transfer
\* was encoded: the program starts with the balanceOf and the transfer.
C29_Witness ==
    /\ InAmountOk
    /\ FirstPoolTransfer
    /\ built.swap_line.amount_in = Balance("EOA")
    /\ Len(Preamble) = 2
    /\ Len(built.ret.ops) > 2

\* A static call balanceOf(multicaller) on a token that puts its result on
\* the stack at slot 0.
IsBalanceReRead(opcode, token) ==
    /\ opcode.call_type = "STATIC_CALL"
    /\ opcode.to = token
    /\ opcode.call_data = encode_erc20_balance_of(MULTICALLER)
    /\ opcode.return_stack =
           Some([is_relative |-> TRUE, stack_id |-> 0, offset |-> 0, len |-> 32])

\* What C30 says of hop i of the last program, a Curve hop with a next pool.
BalanceReReadRule(i) ==
    LET segment == HopSegment(built.ret, i)
        cur_pool == built.swap_line.pools[i]
        next_pool == built.swap_line.pools[i + 1]
        token_to == built.swap_line.tokens[i + 1]
        swaps == {j \in 1 .. Len(segment) : IsSwapCall(segment[j], cur_pool.address)}
        rereads == {j \in 1 .. Len(segment) : IsBalanceReRead(segment[j], token_to)}
        transfers == {j \in 1 .. Len(segment) :
                         /\ next_pool.preswap.type = "Transfer"
                         /\ segment[j].to = token_to
                         /\ IsTransferTo(segment[j], next_pool.preswap.address)}
    IN  IF need_balance(cur_pool.address)
        THEN /\ \A j \in swaps : segment[j].return_stack = None
             /\ Cardinality(rereads) = 1
             /\ \A r \in rereads :
                    /\ \A j \in swaps : j < r
                    /\ \A t \in transfers : r < t
             /\ next_pool.preswap.type = "Transfer" => transfers # {}
        ELSE rereads = {}

\* C30 (SpecEncoder): for a Curve hop on an allowlisted (NEED_BALANCE_MAP) pool
\* that has a next pool, the swap opcode carries no return-stack binding, and
\* a static call balanceOf(multicaller) on the output token with a
\* return-stack binding to slot 0 is emitted after the swap and before the
\* transfer to the next pool's preswap address; for a pool that is not
\* allowlisted no such balanceOf is emitted.
C30_AllowlistedBalanceReRead ==
    InAmountOk =>
        \A i \in 1 .. Len(built.swap_line.pools) - 1 : BalanceReReadRule(i)

\* An allowlisted pool followed by a pool that wants a transfer: the hop holds
\* its swap, then the balanceOf, then the transfer.
C30_Witness ==
    /\ InAmountOk
    /\ Len(built.swap_line.pools) >= 2
    /\ built.swap_line.amount_in = Set(100)
    /\ need_balance(built.swap_line.pools[1].address)
    /\ built.swap_line.pools[2].preswap = Transfer("NEXT")
    /\ LET segment == HopSegment(built.ret, 1)
       IN  \E j, r, t \in 1 .. Len(segment) :
               /\ j < r /\ r < t
               /\ IsSwapCall(segment[j], built.swap_line.pools[1].address)
               /\ IsBalanceReRead(segment[r], built.swap_line.tokens[2])
               /\ IsTransferTo(segment[t], "NEXT")

\* The binding set_return_stack(true, 0, 0x0, 0x20): the first 32 bytes of the
\* return buffer go to slot 0.
ToSlot0 == Some([is_relative |-> TRUE, stack_id |-> 0, offset |-> 0, len |-> 32])

\* Hop i of the last program leaves its output amount on the stack.
LeavesOutputOnStack(i) ==
    LET segment == HopSegment(built.ret, i)
        cur_pool == built.swap_line.pools[i]
        token_to == built.swap_line.tokens[i + 1]
    IN  \E j \in 1 .. Len(segment) :
            /\ IsSwapCall(segment[j], cur_pool.address)
            /\ IF need_balance(cur_pool.address)
               THEN \E r \in j + 1 .. Len(segment) :
                        IsBalanceReRead(segment[r], token_to)
               ELSE segment[j].return_stack = ToSlot0

\* C31 (SpecEncoder): every Curve hop leaves its output amount on the stack,
\* whether or not a next pool exists: for a pool that is not allowlisted the
\* swap opcode has a return-stack binding to slot 0 (buffer offset 0, length
\* 32), and for an allowlisted pool a follow-up static call
\* balanceOf(multicaller) with a return-stack binding to slot 0 is emitted.
C31_EveryHopLeavesOutput ==
    InAmountOk =>
        \A i \in 1 .. Len(built.swap_line.pools) : LeavesOutputOnStack(i)

\* The part of C31 the code keeps: a hop whose amount type has an arm leaves
\* its output on the stack when its pool is not allowlisted or a next pool
\* exists.
C31_OutputOnStackUnlessLastAllowlisted ==
    InAmountOk =>
        \A i \in 1 .. Len(built.swap_line.pools) :
            (/\ built.ret.calls[i].amount_in.type # "NotSet"
             /\ \/ ~need_balance(built.swap_line.pools[i].address)
                \/ i < Len(built.swap_line.pools)) =>
                LeavesOutputOnStack(i)

\* The last hop of a program is on an allowlisted pool, its amount type has
\* an arm, and nothing in the hop pushes the output.
C31_LastAllowlistedHopPushesNothing ==
    /\ InAmountOk
    /\ built.swap_line.amount_in = Set(100)
    /\ LET n == Len(built.swap_line.pools)
       IN  /\ need_balance(built.swap_line.pools[n].address)
           /\ \A j \in 1 .. Len(HopSegment(built.ret, n)) :
                  HopSegment(built.ret, n)[j].return_stack = None

\* The program an opcode carries as the callback data of its swap call, if any.
HasPackedBody(opcode) ==
    /\ opcode.call_type \in {"CALL", "CALL_WITH_VALUE"}
    /\ opcode.call_data.fn \in {"swap_in_amount_provided", "swap_out_amount_provided"}
    /\ DOMAIN opcode.call_data.payload = {"packed"}

PackedBody(opcode) == opcode.call_data.payload.packed

\* Every call-stack binding of a program, the packed bodies included, has
\* data_len 32.
RECURSIVE CallStacksHaveLen32(_)
CallStacksHaveLen32(ops) ==
    \A j \in 1 .. Len(ops) :
        /\ \A b \in 1 .. Len(ops[j].call_stack) : ops[j].call_stack[b].len = 32
        /\ HasPackedBody(ops[j]) => CallStacksHaveLen32(PackedBody(ops[j]))

\* The weth deposit opcodes of a program.
IsDeposit(opcode) ==
    /\ opcode.call_type = "CALL_WITH_VALUE"
    /\ opcode.call_data = encode_weth_deposit

\* C32 (SpecEncoder): every call-stack binding attached to an opcode emitted
\* by the swap-line encoder or by the Curve opcode encoder has data_len = 32
\* (0x20), including the bindings on weth withdraw and weth deposit opcodes.
C32_CallStackLen32 ==
    (built # NoCall /\ built.ret.result = "Ok") => CallStacksHaveLen32(built.ret.ops)

\* The part of C32 the code keeps: every call-stack binding but the one on a
\* weth deposit has data_len 32, in the three encoders.
C32_CallStackLen32ButDeposit ==
    (built # NoCall /\ built.ret.result = "Ok") =>
        /\ \A j \in 1 .. Len(built.ret.ops) :
               (InAmountCall /\ ~IsDeposit(built.ret.ops[j])) =>
                   \A b \in 1 .. Len(built.ret.ops[j].call_stack) :
                       built.ret.ops[j].call_stack[b].len = 32
        /\ ~InAmountCall => CallStacksHaveLen32(built.ret.ops)

\* A program holds a weth deposit, and its call-stack binding has length 0.
C32_DepositBindingIsEmpty ==
    /\ InAmountOk
    /\ \E j \in 1 .. Len(built.ret.ops) :
           /\ IsDeposit(built.ret.ops[j])
           /\ built.ret.ops[j].call_stack =
                  Some([is_relative |-> TRUE, stack_id |-> 0, offset |-> 0, len |-> 0])

FlashInOk == FlashInCall /\ built.ret.result = "Ok"

IsTransfer(opcode) ==
    /\ opcode.call_type = "CALL"
    /\ opcode.call_data.fn = "transfer"

\* How many opcodes a flash pool has in the program of its level.
FlashWidth(pool) == IF pool.class = "UniswapV2" THEN 2 ELSE 1

\* An opcode takes an amount: Set(v) is written into the call data and
\* nothing is bound; any other amount is read from absolute slot 0 at offset.
TakesAmount(opcode, amount, offset) ==
    IF amount.type = "Set"
    THEN /\ opcode.call_data.amount = amount.value
         /\ opcode.call_stack = None
    ELSE /\ opcode.call_data.amount = 0
         /\ opcode.call_stack =
                Some([is_relative |-> FALSE, stack_id |-> 0,
                      offset |-> offset, len |-> 32])

\* The opcodes of flash pool k stand at place j of a body: for UniswapV2 the
\* get_out_amount internal call and then the swap call, for a UniswapV3-like
\* pool the swap call; the pool takes amount.
FlashPoolAt(body, j, k, amount) ==
    LET pool == built.swap_line.pools[k]
    IN  IF pool.class = "UniswapV2"
        THEN /\ body[j].call_type = "INTERNAL_CALL"
             /\ body[j].call_data.fn = "uni2GetOutAmount"
             /\ body[j].call_data.pool = pool.address
             /\ TakesAmount(body[j], amount, 36)
             /\ body[j + 1].call_type = "CALL"
             /\ body[j + 1].to = pool.address
             /\ body[j + 1].call_data.fn = "swap_out_amount_provided"
        ELSE /\ body[j].call_type = "CALL"
             /\ body[j].to = pool.address
             /\ body[j].call_data.fn = "swap_in_amount_provided"
             /\ body[j].return_stack = None
             /\ TakesAmount(body[j], amount, pool.in_offset[1])

\* A body is the level of pool k: it holds the opcodes of pool k and, besides
\* them, transfers only; the callback data of the pool's swap packs the level
\* of pool k + 1, and for the last pool the caller's inside opcodes among
\* transfers.
RECURSIVE InsideOut(_, _)
InsideOut(body, k) ==
    LET n == Len(built.swap_line.pools)
        w == FlashWidth(built.swap_line.pools[k])
        amount == IF k = 1 THEN built.swap_line.amount_in ELSE Stack0
    IN  \E j \in 1 .. Len(body) - w + 1 :
            /\ FlashPoolAt(body, j, k, amount)
            /\ \A t \in 1 .. Len(body) : t \notin j .. j + w - 1 => IsTransfer(body[t])
            /\ HasPackedBody(body[j + w - 1])
            /\ LET inner == PackedBody(body[j + w - 1])
               IN  IF k < n THEN InsideOut(inner, k + 1)
                   ELSE \E s \in 1 .. Len(inner) - Len(built.inside) + 1 :
                            /\ SubSeq(inner, s, s + Len(built.inside) - 1) = built.inside
                            /\ \A t \in 1 .. Len(inner) : IsTransfer(inner[t])

\* C33 (SpecEncoder): encode_flash_swap_line_in_amount on a line of n >= 1
\* supported pools builds the program inside-out: the returned outer program
\* holds only the opcodes of the first pool of the line (a get_out_amount
\* internal call followed by the swap call for UniswapV2, a single swap call
\* for the UniswapV3-like classes), its callback data packs the program of the
\* second pool, and so on to depth n with the caller's inside opcodes
\* innermost; the first pool takes the line's amount_in and every other pool
\* takes Stack0.
C33_FlashInInsideOut ==
    FlashInOk =>
        /\ Len(built.ret.ops) = FlashWidth(built.swap_line.pools[1])
        /\ InsideOut(built.ret.ops, 1)

\* A line of a UniswapV3 pool, a UniswapV2 pool and a Maverick pool was
\* encoded around the caller's opcodes with a set amount.
C33_Witness ==
    /\ FlashInOk
    /\ Len(built.swap_line.pools) = 3
    /\ built.swap_line.pools[1].class = "UniswapV3"
    /\ built.swap_line.pools[2].class = "UniswapV2"
    /\ built.swap_line.pools[3].class = "Maverick"
    /\ built.swap_line.amount_in = Set(100)
    /\ built.inside # << >>
    /\ Len(built.ret.ops) = 1
    /\ Len(PackedBody(PackedBody(PackedBody(built.ret.ops[1])[2])[1])) >= 2

\* The swap opcode of a level: the one opcode that carries a packed body.
SwapIn(body) == body[CHOOSE j \in 1 .. Len(body) : HasPackedBody(body[j])]

\* The body packed as the callback data of flash pool k in the last program.
RECURSIVE CallbackBody(_)
CallbackBody(k) ==
    PackedBody(SwapIn(IF k = 1 THEN built.ret.ops ELSE CallbackBody(k - 1)))

\* A body holds a transfer of the input token of flash pool k to the pool.
RepaysPool(body, k) ==
    \E t \in 1 .. Len(body) :
        /\ IsTransfer(body[t])
        /\ body[t].to = built.swap_line.tokens[k]
        /\ body[t].call_data.to = built.swap_line.pools[k].address

\* C34 (SpecEncoder): in encode_flash_swap_line_in_amount, for every flash
\* pool of every supported class and for every amount type (Set or
\* stack-resolved), the body packed as that pool's callback data contains a
\* transfer of the pool's input token to the pool that repays it.
C34_BodyRepaysFlashPool ==
    FlashInOk =>
        \A k \in 1 .. Len(built.swap_line.pools) : RepaysPool(CallbackBody(k), k)

\* The part of C34 the code keeps: the body of a UniswapV3-like pool always
\* holds the transfer, the body of a UniswapV2 pool when the pool's amount
\* is Set.
C34_BodyRepaysUnlessV2FromStack ==
    FlashInOk =>
        \A k \in 1 .. Len(built.swap_line.pools) :
            (\/ built.swap_line.pools[k].class \in V3Like
             \/ FlashInAmountOf(k).type = "Set") =>
                RepaysPool(CallbackBody(k), k)

\* A UniswapV2 pool took its amount from the stack and its body holds no
\* transfer at all.
C34_V2FromStackBodyHasNoTransfer ==
    /\ FlashInOk
    /\ Len(built.swap_line.pools) = 1
    /\ built.swap_line.pools[1].class = "UniswapV2"
    /\ built.swap_line.amount_in = Stack0
    /\ built.funds_to = MULTICALLER
    /\ CallbackBody(1) = built.inside

(***************************************************************************)
(* Claims about the Market's adjacency indexes (Spec).                     *)
(***************************************************************************)
MarketTokenNames == {WETH, "T1"}

RECURSIVE SumOfLens(_, _)
SumOfLens(inner, keys) ==
    IF keys = {} THEN 0
    ELSE LET b == CHOOSE x \in keys : TRUE
         IN  Len(inner[b]) + SumOfLens(inner, keys \ {b})

\* The three indexes of token a have the same size.
SizesAgree(m, a) ==
    LET inner == GetOr(m.token_token_pools, a, EmptyMap)
    IN  /\ Len(get_token_tokens(m, a)) = Len(get_token_pools(m, a))
        /\ Len(get_token_pools(m, a)) = SumOfLens(inner, DOMAIN inner)

\* The entries of dirs that leave token a, mapped to the token they reach
\* (to_token) or to the pool (otherwise), in the order of dirs.
RECURSIVE Appended(_, _, _, _)
Appended(dirs, a, pool_id, to_token) ==
    IF dirs = << >> THEN << >>
    ELSE (IF Head(dirs)[1] = a
          THEN <<IF to_token THEN Head(dirs)[2] ELSE pool_id>>
          ELSE << >>)
         \o Appended(Tail(dirs), a, pool_id, to_token)

\* The pool a step registered, as a sequence of length 0 or 1.
Registered(m1, m2) ==
    IF DOMAIN m2.pools = DOMAIN m1.pools THEN << >>
    ELSE <<m2.pools[CHOOSE id \in DOMAIN m2.pools : id \notin DOMAIN m1.pools]>>

\* From m1 to m2 the lists of token a grew by the directions of the pool
\* registered, at their end and in the pool's order, and by nothing else.
GrewByDirections(m1, m2, a) ==
    LET dirs == IF Registered(m1, m2) = << >> THEN << >>
                ELSE Registered(m1, m2)[1].dirs
        id == IF Registered(m1, m2) = << >> THEN 0 ELSE Registered(m1, m2)[1].id
    IN  /\ get_token_tokens(m2, a) =
               get_token_tokens(m1, a) \o Appended(dirs, a, id, TRUE)
        /\ get_token_pools(m2, a) =
               get_token_pools(m1, a) \o Appended(dirs, a, id, FALSE)
        /\ \A b \in MarketTokenNames :
               get_token_token_pools(m2, a, b) =
                   get_token_token_pools(m1, a, b)
                       \o Appended(SelectSeq(dirs, LAMBDA d : d[2] = b), a, id, FALSE)

\* C35 (Spec): in every reachable Market state and for every token a the
\* three adjacency indexes agree in size: len(token_tokens[a]) =
\* len(token_pools[a]) = the sum over b of len(token_token_pools[a][b]); each
\* list grows by exactly one entry per direction (a,b) of every successfully
\* added pool, in insertion order, and never shrinks.
C35_AdjacencySizesAgree ==
    /\ [](\A a \in MarketTokenNames : SizesAgree(market, a))
    /\ [][\A a \in MarketTokenNames : GrewByDirections(market, market', a)]_vars

\* Both pools are registered, one of them reporting the direction (T1, T1)
\* twice, and the last add_pool was refused: token T1 has three entries in
\* each index.
C35_Witness ==
    /\ Cardinality(DOMAIN market.pools) = 2
    /\ result = "Duplicate"
    /\ Len(get_token_tokens(market, "T1")) = 3
    /\ Len(get_token_pools(market, "T1")) = 3
    /\ Len(get_token_token_pools(market, "T1", "T1")) = 2
    /\ Len(get_token_token_pools(market, "T1", WETH)) = 1

(***************************************************************************)
(* Claims about the loader tasks (SpecLoader, SpecLoaderFair).             *)
(***************************************************************************)
\* Task p has left no trace in MarketState or Market and holds no lock.
Untouched(p) ==
    /\ p \notin market_state.state
    /\ p \notin market_state.force_insert
    /\ p \notin market_state.cell_vec_disabled
    /\ p \notin loaded
    /\ \A k \in 1 .. Len(order) : order[k].task # p
    /\ ms_lock # p
    /\ m_lock # p

\* C36 (SpecLoader): if pool instantiation, get_state_required or the
\* required-state fetch of a loader task fails, the task returns the error
\* without having acquired either lock: MarketState and Market are left
\* unchanged by that task.
C36_FailureLeavesStateUnchanged ==
    /\ [](\A p \in PoolIds : pc[p] = "err" => Untouched(p))
    /\ [][\A p \in PoolIds :
             (pc[p] # "err" /\ pc'[p] = "err") =>
                 /\ pc[p] \in RpcOutstanding
                 /\ UNCHANGED << market, market_state, ms_lock, m_lock >>]_vars

\* One task has failed and the other has gone through both write sections.
C36_Witness ==
    /\ pc[1] = "err"
    /\ pc[2] = "ok"
    /\ market_state.state = {2}
    /\ loaded = {2}
    /\ Untouched(1)

(***************************************************************************)
(* SpecConverge: the tasks of three distinct pools, two over (WETH, T1)    *)
(* and one over (T1, T1), spawned in one batch, that all succeed: no RPC   *)
(* fails, no pool is disabled, the tokens are fixed and no other writer    *)
(* touches Market.  The tasks take the steps of                            *)
(* fetch_and_add_pool_by_pool_id in every interleaving the two locks       *)
(* allow.  The pools give two 2-hop and two 3-hop cycles.                  *)
(***************************************************************************)
ConvergeIds == {1, 2, 3}

InitC ==
    /\ market = InitLoaderMarket
    /\ result = "Ok"
    /\ processed_pools = ConvergeIds
    /\ permits = MAX_CONCURRENT_TASKS
    /\ pc = [p \in ConvergeIds |-> "spawned"]
    /\ spawned = [p \in ConvergeIds |-> 1]
    /\ dropped = {}
    /\ market_state = EmptyMarketState
    /\ ms_lock = 0
    /\ m_lock = 0
    /\ readers = 0
    /\ loaded = {}
    /\ order = << >>
    /\ bg_waiting = 0
    /\ bg_inflight = 0
    /\ worker = "running"
    /\ built = NoCall

NextC ==
    \/ \E p \in ConvergeIds : Acquire(p)
    \/ \E p \in ConvergeIds : LoadOk(p)
    \/ \E p \in ConvergeIds : FetchOk(p)
    \/ \E p \in ConvergeIds : StateLock(p)
    \/ \E p \in ConvergeIds : StateWrite(p)
    \/ \E p \in ConvergeIds : MarketLock(p)
    \/ \E p \in ConvergeIds : MarketAddPool(p)
    \/ \E p \in ConvergeIds : MarketPaths(p)

SpecConverge == InitC /\ [][NextC]_vars

\* The 2- and 3-hop cycles anchored at a basic token over the pools of a
\* Market, read from what the registered pools report.
AllCycles(m) ==
    UNION {CyclesThrough(m, id, m.pools[id].dirs) : id \in DOMAIN m.pools}

AllTasksOk == \A p \in ConvergeIds : pc[p] = "ok"

\* C37 (SpecConverge): for any set of distinct pools loaded by concurrent
\* tasks that all succeed (no pool disabled, tokens fixed), the final Market
\* contains all of them, and the final set of indexed swap paths is the same
\* for every interleaving of the tasks' Market write sections: it equals the
\* set of all valid 2- and 3-hop basic-token cycles over the final pool set.
C37_InterleavingsConverge ==
    AllTasksOk =>
        /\ DOMAIN market.pools = ConvergeIds
        /\ \A p \in ConvergeIds : market.pools[p] = LoadedPool(p)
        /\ Range(market.swap_paths.paths) = AllCycles(market)
        /\ AllCycles(market) =
               AllCycles([EmptyMarket EXCEPT
                             !.pools = [p \in ConvergeIds |-> LoadedPool(p)],
                             !.tokens = InitLoaderMarket.tokens])

\* The three tasks have finished, their write sections in the order 3, 1,
\* 2: the Market indexes the 2-hop and the 3-hop cycles.
C37_Witness ==
    /\ AllTasksOk
    /\ Len(order) = 3
    /\ order[1].task = 3 /\ order[2].task = 1 /\ order[3].task = 2
    /\ \E k \in 1 .. Len(market.swap_paths.paths) :
           Len(market.swap_paths.paths[k].pools) = 2
    /\ \E k \in 1 .. Len(market.swap_paths.paths) :
           Len(market.swap_paths.paths[k].pools) = 3

RECURSIVE line_vec_addresses(_)
line_vec_addresses(swap_line_vec) ==
    IF swap_line_vec = << >> THEN << >>
    ELSE PoolAddresses(Head(swap_line_vec).pools)
             \o line_vec_addresses(Tail(swap_line_vec))

\* Swap::get_pool_address_vec: of a pair of steps only the first is read.
RECURSIVE get_pool_address_vec(_)
get_pool_address_vec(swap) ==
    CASE swap.kind \in {"ExchangeSwapLine", "BackrunSwapLine"} ->
             PoolAddresses(swap.swap_line.pools)
      [] swap.kind = "BackrunSwapSteps" ->
             line_vec_addresses(swap.sp0.swap_line_vec)
      [] swap.kind = "Multiple" ->
             IF swap.swap_vec = << >> THEN << >>
             ELSE get_pool_address_vec(Head(swap.swap_vec))
                      \o get_pool_address_vec([swap EXCEPT !.swap_vec = Tail(@)])
      [] OTHER -> << >>

\* The steps the last call returned, as a swap.
LoweredSteps ==
    [kind |-> "BackrunSwapSteps", sp0 |-> built.ret.step_0, sp1 |-> built.ret.step_1]

\* C39 (SpecSwap): for every BackrunSwapLine(L) and (s0, s1) =
\* to_swap_steps(L), get_pool_address_vec of BackrunSwapSteps((s0, s1)) equals
\* get_pool_address_vec of BackrunSwapLine(L): the pools of both steps are
\* reported.
C39_LoweringKeepsPoolAddressVec ==
    Lowered => get_pool_address_vec(LoweredSteps) = get_pool_address_vec(built.swap)

\* What holds of C39: the steps report the pools of the flash step alone, the
\* first pools of the line, and lose every pool of the inside step.
C39_StepsReportFlashStepOnly ==
    Lowered =>
        LET L == built.swap.swap_line
            v == get_pool_address_vec(LoweredSteps)
        IN  /\ v = PoolAddresses(StepLine(built.ret.step_0).pools)
            /\ v = SubSeq(get_pool_address_vec(built.swap), 1, Len(v))
            /\ Len(v) + Len(StepLine(built.ret.step_1).pools) = Len(L.pools)

\* A line of three pools was lowered and its steps report one address.
C39_InsidePoolsNotReported ==
    /\ Lowered
    /\ get_pool_address_vec(built.swap) = <<"P2", "P1", "P3">>
    /\ get_pool_address_vec(LoweredSteps) = <<"P2">>

\* Opcode j of a segment reads the stack, and no opcode before it in the
\* segment has pushed to it.
ReadsUnfilledStack(segment, j) ==
    /\ segment[j].call_stack # None
    /\ \A r \in 1 .. j - 1 : segment[r].return_stack = None

\* The hops of the last program the Curve encoder was given Set(v) or
\* Balance(a) for.
ProvidedHops ==
    {i \in 1 .. Len(built.ret.calls) :
        built.ret.calls[i].amount_in.type \in {"Set", "Balance"}}

\* C40 (SpecEncoder): in the opcodes the Curve encoder emits for a hop whose
\* amount_in is Set(v) or Balance(a), every opcode with a call-stack binding
\* is preceded by an opcode with a return-stack binding: no opcode reads a
\* stack the hop has not filled, whatever the wrap/unwrap, the allowlist and
\* the next pool are.
C40_ReadsFollowPush ==
    InAmountOk =>
        \A i \in ProvidedHops :
            \A j \in 1 .. Len(HopSegment(built.ret, i)) :
                ~ReadsUnfilledStack(HopSegment(built.ret, i), j)

\* The part of C40 the code keeps: the only opcode that reads a stack its hop
\* has not filled is the weth deposit after the swap of an allowlisted pool
\* whose amount is Set(v).
C40_ReadsFollowPushButAllowlistedDeposit ==
    InAmountOk =>
        \A i \in ProvidedHops :
            \A j \in 1 .. Len(HopSegment(built.ret, i)) :
                ReadsUnfilledStack(HopSegment(built.ret, i), j) =>
                    /\ IsDeposit(HopSegment(built.ret, i)[j])
                    /\ need_balance(built.swap_line.pools[i].address)
                    /\ built.ret.calls[i].amount_in.type = "Set"

\* The hop of a native allowlisted pool with Set(100), from WETH to WETH: a
\* withdraw, the swap and the deposit, which reads slot 0 though neither of
\* the opcodes before it has a return-stack binding.
C40_AllowlistedDepositReadsUnfilled ==
    /\ InAmountOk
    /\ Len(built.swap_line.pools) = 1
    /\ built.ret.calls[1].amount_in = Set(100)
    /\ need_balance(built.swap_line.pools[1].address)
    /\ LET segment == HopSegment(built.ret, 1)
       IN  /\ Len(segment) = 3
           /\ segment[1].call_data = encode_weth_withdraw(100)
           /\ IsSwapCall(segment[2], built.swap_line.pools[1].address)
           /\ IsDeposit(segment[3])
           /\ ReadsUnfilledStack(segment, 3)

\* A hop with Balance(a) on a pool that is not allowlisted, with a next pool
\* that wants a transfer: the balanceOf pushes, and the approve, the swap and
\* the transfer read after it.
C40_BalanceHopReadsAfterPush ==
    /\ InAmountOk
    /\ Len(built.swap_line.pools) = 2
    /\ built.ret.calls[1].amount_in = Balance("EOA")
    /\ ~need_balance(built.swap_line.pools[1].address)
    /\ LET segment == HopSegment(built.ret, 1)
       IN  /\ Len(segment) = 4
           /\ segment[1].return_stack = ToSlot0
           /\ \A j \in 2 .. 4 : segment[j].call_stack # None

=============================================================================
